---- MODULE Spec2Model ----
(***************************************************************************)
(* Model of the TD Mk Landscape problem generator (problem/clique_tree.rs): *)
(* clique tree construction, exact global optimum calculation and the      *)
(* fitness evaluation API.                                                 *)
(*                                                                         *)
(* Conventions.  Rust vectors are 0-based, TLA+ sequences are 1-based: the *)
(* element v[i] of the source is v[i + 1] here.  Variable indices, clique  *)
(* indices, table indices and separator values keep their 0-based VALUES.  *)
(* f64 fitness values are modelled as integers counted in units of half    *)
(* the tolerance (0.5e-10), so that values closer than the tolerance exist *)
(* and the arithmetic is exact (no rounding is modelled).                  *)
(***************************************************************************)
EXTENDS Integers, Sequences, FiniteSets, TLC

(***************************************************************************)
(* Bounds of the model.                                                    *)
(***************************************************************************)
MaxM == 3
MaxK == 3
MaxB == 2
MaxRotation == 1
\* the non-zero entries of a drawn codomain table
MaxPeaks == 2
\* the largest M * 2^k of an instance that is solved with the drawn tables
MaxCells == 16
\* the largest n of an instance that is evaluated
MaxEvalVariables == 3
MaxEvaluations == 3
\* the longest line of a parameter file
MaxLineLength == 8
\* the widest range of a configuration, and the calls of next() made after
\* as many calls as the configuration has tuples
MaxExtent == 2
MaxCallsAfterEnd == 2
\* the most cliques and the largest clique of a generated trap codomain
MaxTrapM == 2
MaxTrapK == 3
\* the most cliques of an instance whose tree is traversed
MaxTreeM == 6
\* the largest magnitude of a fitness handed to the tolerance comparators
MaxComparedFitness == 5

\* FITNESS_EPSILON = 1e-10, in model units of 0.5e-10.
FITNESS_EPSILON == 2

VARIABLES
    pc,                  \* "start", "built", "solved", "aborted" (panic),
                         \* "loaded", "reading", "rejected", "written",
                         \* "comparing", "compared", "iterating", "generated"
    input_parameters,    \* InputParameters {m, k, o, b}
    rng,                 \* number of shuffles drawn from the bit source so far
    indices,             \* construct: the shuffled variable indices
    cliques,             \* CliqueTree.cliques
    separators,          \* construct: the separators
    codomain_values,     \* CliqueTree.codomain_values
    glob_optima_strings, \* CliqueTree.glob_optima_strings
    glob_optima_score,   \* CliqueTree.glob_optima_score
    path,                \* the branch calculate_global_optima took
    solution,            \* the caller's SolutionFit.solution
    fitness,             \* the caller's SolutionFit.fitness
    number_evaluations,  \* the caller's evaluation counter
    shuffled,            \* construct: the slices handed to shuffle, in call order
    is_optimum,          \* what the last call of is_global_optimum returned
    content_iterator,    \* from_line_iterator: the lines the iterator still holds
    from_line_result,    \* what from_line_iterator returned
    file,                \* the lines of the codomain file
    read_result,         \* what read_codomain returned
    elimination_result,  \* what the elimination path returned for o = 0
    comparison,          \* what the four tolerance comparators returned
    stored_best_scores,  \* calculate_global_optima: best_scores as the elimination left it
    children_read,       \* calculate_global_optima: the child indices each pass derived
    configuration_iterator,\* the ConfigurationParametersIterator of a caller
    yielded,             \* what the calls of next() returned, in call order
    sampled              \* the values the die sampled from rng, in draw order

\* The state of the file reading and writing functions.
ioVars == <<content_iterator, from_line_result, file, read_result>>

vars == <<pc, input_parameters, rng, indices, cliques, separators,
          codomain_values, glob_optima_strings, glob_optima_score, path,
          solution, fitness, number_evaluations, shuffled, is_optimum,
          content_iterator, from_line_result, file, read_result,
          elimination_result,
          comparison,
          stored_best_scores,
          children_read,
          configuration_iterator,
          yielded,
          sampled>>

(***************************************************************************)
(* Small helpers for the Rust integer and vector operations.               *)
(***************************************************************************)
RECURSIVE Pow(_, _)
Pow(base, e) == IF e = 0 THEN 1 ELSE base * Pow(base, e - 1)

Abs(x) == IF x < 0 THEN 0 - x ELSE x

\* v.contains(&x)
Contains(v, x) == \E i \in 1..Len(v) : v[i] = x

\* The set of elements of a vector.
Range(v) == {v[i] : i \in 1..Len(v)}

\* A vector given by its elements, computed once (v \o <<>> = v).
Vec(v) == v \o <<>>

\* vec![x; n]
Repeat(x, n) == Vec([i \in 1..n |-> x])

(***************************************************************************)
(* InputParameters: the tuples (M, k, o, b) with M >= 1, 0 <= o < k,       *)
(* b >= 1 that the model draws.                                            *)
(***************************************************************************)
InputParameters ==
    {p \in [m : 1..MaxM, k : 1..MaxK, o : 0..MaxK, b : 1..MaxB] : p.o < p.k}

\* The tuples that InputParameters::new_from_primitives and CliqueTree::new
\* accept: neither compares o with k.  Next to the valid tuples the model
\* draws those with o = k.  (With o > k the u32 subtraction k - o of
\* construct overflows and with k >= 32 the shift 1 << k does, which a debug
\* build turns into a panic and a release build into a wrapped value; these
\* tuples are not drawn.)
UncheckedParameters ==
    {p \in [m : 1..MaxM, k : 1..MaxK, o : 0..MaxK, b : 1..MaxB] : p.o <= p.k}

\* n = (M - 1)(k - o) + k
ProblemSize(p) == (p.m - 1) * (p.k - p.o) + p.k

(***************************************************************************)
(* slice.shuffle(rng): the outcome is a permutation of the slice that the  *)
(* drawn random bits decide.  The outcomes considered are the cyclic       *)
(* rotations of the slice by a drawn amount d.                             *)
(***************************************************************************)
Shuffle(s, d) ==
    IF Len(s) = 0 THEN s
    ELSE Vec([i \in 1..Len(s) |-> s[((i - 1 + d) % Len(s)) + 1]])

Draws == 0..MaxRotation

(***************************************************************************)
(* CliqueTree::construct.  draws[1] decides the shuffle of the variable    *)
(* indices, draws[c + 1] the shuffle of the parent's clique for the c-th   *)
(* created child.                                                          *)
(***************************************************************************)
ConstructB(p) == IF p.o = 0 THEN 1 ELSE p.b

ConstructDivision(p) ==
    LET b == ConstructB(p)
    IN  ((p.m - 1) \div b) + (IF (p.m - 1) % b > 0 THEN 1 ELSE 0)

\* Variants of ConstructChild with a slip: the private variables are taken
\* from the start of the permutation's tail minus k; the separator is put
\* behind the private variables; the separator is drawn from the root clique.
ConstructChild_StartIndexWithoutK(p, perm, draws, i, st) ==
    LET clique_copy    == Shuffle(st.cliques[i + 1], draws[st.count + 1])
        new_separator  == [x \in 1..p.o |-> clique_copy[x]]
        start_index    == (st.count - 1) * (p.k - p.o)
        variables_to_add == [x \in 1..(p.k - p.o) |-> perm[start_index + x]]
        new_clique     == new_separator \o variables_to_add
    IN  [cliques    |-> Append(st.cliques, new_clique),
         separators |-> Append(st.separators, new_separator),
         count      |-> st.count + 1,
         shuffles   |-> st.shuffles + 1,
         shuffled   |-> Append(st.shuffled, st.cliques[i + 1])]

ConstructChild_SeparatorLast(p, perm, draws, i, st) ==
    LET clique_copy    == Shuffle(st.cliques[i + 1], draws[st.count + 1])
        new_separator  == [x \in 1..p.o |-> clique_copy[x]]
        start_index    == (st.count - 1) * (p.k - p.o) + p.k
        variables_to_add == [x \in 1..(p.k - p.o) |-> perm[start_index + x]]
        new_clique     == variables_to_add \o new_separator
    IN  [cliques    |-> Append(st.cliques, new_clique),
         separators |-> Append(st.separators, new_separator),
         count      |-> st.count + 1,
         shuffles   |-> st.shuffles + 1,
         shuffled   |-> Append(st.shuffled, st.cliques[i + 1])]

ConstructChild_SeparatorFromRoot(p, perm, draws, i, st) ==
    LET clique_copy    == Shuffle(st.cliques[1], draws[st.count + 1])
        new_separator  == [x \in 1..p.o |-> clique_copy[x]]
        start_index    == (st.count - 1) * (p.k - p.o) + p.k
        variables_to_add == [x \in 1..(p.k - p.o) |-> perm[start_index + x]]
        new_clique     == new_separator \o variables_to_add
    IN  [cliques    |-> Append(st.cliques, new_clique),
         separators |-> Append(st.separators, new_separator),
         count      |-> st.count + 1,
         shuffles   |-> st.shuffles + 1,
         shuffled   |-> Append(st.shuffled, st.cliques[1])]

\* Variant of ConstructChild that leaves the parent's clique unshuffled, and
\* the bit source untouched, when no separator variable is needed (o = 0).
ConstructChild_NoShuffleWhenSeparable(p, perm, draws, i, st) ==
    LET clique_copy    == IF p.o = 0 THEN st.cliques[i + 1]
                          ELSE Shuffle(st.cliques[i + 1], draws[st.count + 1])
        new_separator  == [x \in 1..p.o |-> clique_copy[x]]
        start_index    == (st.count - 1) * (p.k - p.o) + p.k
        variables_to_add == [x \in 1..(p.k - p.o) |-> perm[start_index + x]]
        new_clique     == new_separator \o variables_to_add
    IN  [cliques    |-> Append(st.cliques, new_clique),
         separators |-> Append(st.separators, new_separator),
         count      |-> st.count + 1,
         shuffles   |-> IF p.o = 0 THEN st.shuffles ELSE st.shuffles + 1,
         shuffled   |-> IF p.o = 0 THEN st.shuffled
                        ELSE Append(st.shuffled, st.cliques[i + 1])]

\* One child: the body of the inner loop for parent i, reached with st.count
\* cliques already constructed.
ConstructChild(p, perm, draws, i, st) ==
    LET clique_copy    == Shuffle(st.cliques[i + 1], draws[st.count + 1])
        new_separator  == [x \in 1..p.o |-> clique_copy[x]]
        start_index    == (st.count - 1) * (p.k - p.o) + p.k
        variables_to_add == [x \in 1..(p.k - p.o) |-> perm[start_index + x]]
        new_clique     == new_separator \o variables_to_add
    IN  [cliques    |-> Append(st.cliques, new_clique),
         separators |-> Append(st.separators, new_separator),
         count      |-> st.count + 1,
         shuffles   |-> st.shuffles + 1,
         shuffled   |-> Append(st.shuffled, st.cliques[i + 1])]

RECURSIVE ConstructLoop(_, _, _, _, _, _)
ConstructLoop(p, perm, draws, i, j, st) ==
    LET b == ConstructB(p)
    IN  IF i >= ConstructDivision(p) THEN st
        ELSE IF j >= b \/ (i * b) + j >= p.m - 1
             THEN ConstructLoop(p, perm, draws, i + 1, 0, st)
             ELSE ConstructLoop(p, perm, draws, i, j + 1,
                                ConstructChild(p, perm, draws, i, st))

ConstructResult(p, draws) ==
    LET n       == ProblemSize(p)
        perm    == Shuffle([x \in 1..n |-> x - 1], draws[1])
        clique0 == Vec([x \in 1..p.k |-> perm[x]])
        st0     == [cliques |-> <<clique0>>, separators |-> << <<>> >>,
                    count |-> 1, shuffles |-> 1,
                    shuffled |-> <<Vec([x \in 1..n |-> x - 1])>>]
        st      == ConstructLoop(p, perm, draws, 0, 0, st0)
    IN  [indices |-> perm, cliques |-> st.cliques,
         separators |-> st.separators, shuffles |-> st.shuffles,
         shuffled |-> st.shuffled]

(***************************************************************************)
(* Tolerance comparators.                                                  *)
(***************************************************************************)
\* Variant of is_better_fitness that needs more than the tolerance.
is_better_fitness_MoreThanEpsilon(fitness1, fitness2) ==
    fitness1 > fitness2 /\ Abs(fitness1 - fitness2) > FITNESS_EPSILON

is_better_fitness(fitness1, fitness2) ==
    fitness1 > fitness2 /\ Abs(fitness1 - fitness2) >= FITNESS_EPSILON

is_worse_fitness(fitness1, fitness2) ==
    fitness1 < fitness2 /\ Abs(fitness1 - fitness2) >= FITNESS_EPSILON

is_equal_fitness(fitness1, fitness2) ==
    Abs(fitness1 - fitness2) < FITNESS_EPSILON

is_better_or_equal_fitness(fitness1, fitness2) ==
    fitness1 > fitness2 \/ is_equal_fitness(fitness1, fitness2)

(***************************************************************************)
(* Substring helpers.  A substring is a vector of bits, most significant   *)
(* first.                                                                  *)
(***************************************************************************)
\* (substring_as_index >> i) & 1
Bit(substring_as_index, i) == (substring_as_index \div Pow(2, i)) % 2

\* get_possible_substrings(length)[idx], idx 0-based
get_possible_substrings(length) ==
    [idx1 \in 1..Pow(2, length) |->
        Vec([pos \in 1..length |-> Bit(idx1 - 1, length - pos)])]

RECURSIVE TransformLoop(_, _, _, _)
TransformLoop(substring, i, current_bit_shift_amount, sum) ==
    IF i = 0 THEN sum
    ELSE TransformLoop(substring, i - 1, current_bit_shift_amount + 1,
                       sum + substring[i] * Pow(2, current_bit_shift_amount))

transform_substring_vector_to_index(substring) ==
    TransformLoop(substring, Len(substring), 0, 0)

\* clique.iter().position(|&x| x == index): 0 stands for None
Position(clique, index) ==
    IF Contains(clique, index)
    THEN CHOOSE i \in 1..Len(clique) :
            clique[i] = index /\ \A h \in 1..(i - 1) : clique[h] # index
    ELSE 0

\* ok = FALSE is the panic of expect("index in separator not found in clique!")
get_child_separator_substring(clique, separator, clique_substring) ==
    [ok  |-> \A x \in 1..Len(separator) : Position(clique, separator[x]) # 0,
     sub |-> [x \in 1..Len(separator) |->
                IF Position(clique, separator[x]) # 0
                THEN clique_substring[Position(clique, separator[x])]
                ELSE 0]]

get_separator_substring_from_string(separator, glob_string) ==
    [x \in 1..Len(separator) |-> glob_string[separator[x] + 1]]

\* string[vars[x]] = vals[x] for x = 0, 1, ... in this order
RECURSIVE WriteAll(_, _, _, _)
WriteAll(string, variables, vals, x) ==
    IF x > Len(variables) THEN string
    ELSE WriteAll([string EXCEPT ![variables[x] + 1] = vals[x]],
                  variables, vals, x + 1)

(***************************************************************************)
(* Separable path: calculate_global_optimum_separable.                     *)
(***************************************************************************)
\* The scan of one table: acc = [highest_score, highest_score_indices]
RECURSIVE SeparableScan(_, _, _)
SeparableScan(table, j, acc) ==
    IF j > Len(table) - 1 THEN acc
    ELSE LET score == table[j + 1]
         IN  IF is_equal_fitness(score, acc.highest_score)
             THEN SeparableScan(table, j + 1,
                    [acc EXCEPT !.highest_score_indices = Append(@, j)])
             ELSE IF is_better_fitness(score, acc.highest_score)
             THEN SeparableScan(table, j + 1,
                    [highest_score |-> score, highest_score_indices |-> <<j>>])
             ELSE SeparableScan(table, j + 1, acc)

SeparableCliqueOptima(table) ==
    SeparableScan(table, 1,
                  [highest_score |-> table[1], highest_score_indices |-> <<0>>])

RECURSIVE SumHighest(_, _)
SumHighest(cv, i) ==
    IF i = 0 THEN 0
    ELSE SumHighest(cv, i - 1)
         + SeparableCliqueOptima(cv[i]).highest_score

\* (number_clique_optima - 1) times: push a clone of the first
\* original_length strings
RECURSIVE CloneTimes(_, _, _)
CloneTimes(strings, original_length, times) ==
    IF times = 0 THEN strings
    ELSE CloneTimes(strings \o SubSeq(strings, 1, original_length),
                    original_length, times - 1)

RECURSIVE set_optimal_clique_substrings(_, _, _, _, _)
set_optimal_clique_substrings(p, cl, result_optima_strings, clique_optimas, current_index) ==
    IF current_index = p.m THEN result_optima_strings
    ELSE LET optimas == clique_optimas[current_index + 1]
             original_length == Len(result_optima_strings)
             cloned == CloneTimes(result_optima_strings, original_length,
                                  Len(optimas) - 1)
             written ==
               Vec([s \in 1..Len(cloned) |->
                  LET num == (s - 1) \div original_length
                  IN  WriteAll(cloned[s], cl[current_index + 1],
                               [j1 \in 1..p.k |->
                                  Bit(optimas[num + 1], p.k - (j1 - 1) - 1)],
                               1)])
         IN  set_optimal_clique_substrings(p, cl, written, clique_optimas,
                                           current_index + 1)

calculate_global_optimum_separable(p, cv, cl) ==
    LET clique_optimas ==
          Vec([i \in 1..p.m |->
             SeparableCliqueOptima(cv[i]).highest_score_indices])
    IN  [ok      |-> TRUE,
         path    |-> "separable",
         score   |-> SumHighest(cv, p.m),
         strings |-> set_optimal_clique_substrings(
                        p, cl, <<Repeat(0, p.m * p.k)>>, clique_optimas, 0),
         best_scores |-> <<>>, children |-> <<>>]

(***************************************************************************)
(* General path of calculate_global_optima (o > 0): max-sum elimination    *)
(* from the leaves to the root, then top-down reconstruction.              *)
(***************************************************************************)
\* while sum < m { start_indices.push(sum); sum += b.pow(l); l += 1; }
RECURSIVE LevelLoop(_, _, _, _)
LevelLoop(p, sum, l, start_indices) ==
    IF sum < p.m
    THEN LevelLoop(p, sum + Pow(p.b, l), l + 1, Append(start_indices, sum))
    ELSE [sum |-> sum, l |-> l, start_indices |-> start_indices]

Levels(p) ==
    LET r == LevelLoop(p, 0, 0, <<>>)
    IN  [start_indices            |-> r.start_indices,
         start_index_lowest_level |-> r.sum - Pow(p.b, r.l - 1),
         lowest_level             |-> r.l - 1]

\* The tie recording shared by the per-separator scan and the root scan:
\*   if !scores.is_empty() && is_better_fitness(score, highest_score) { clear }
\*   if scores.is_empty() || is_better_or_equal_fitness(score, highest_score)
\*      { push; highest_score = score }
\* Variant of RecordScore that pushes only on the comparison with
\* highest_score, without the test for an empty list.
RecordScore_WithoutEmptyTest(acc, substring, score) ==
    LET cleared == IF acc.scores # <<>>
                      /\ is_better_fitness(score, acc.highest_score)
                   THEN <<>> ELSE acc.scores
    IN  IF is_better_or_equal_fitness(score, acc.highest_score)
        THEN [acc EXCEPT !.scores = Append(cleared,
                                      [sub |-> substring, score |-> score]),
                         !.highest_score = score]
        ELSE [acc EXCEPT !.scores = cleared]

RecordScore(acc, substring, score) ==
    LET cleared == IF acc.scores # <<>>
                      /\ is_better_fitness(score, acc.highest_score)
                   THEN <<>> ELSE acc.scores
    IN  IF cleared = <<>>
           \/ is_better_or_equal_fitness(score, acc.highest_score)
        THEN [acc EXCEPT !.scores = Append(cleared,
                                      [sub |-> substring, score |-> score]),
                         !.highest_score = score]
        ELSE [acc EXCEPT !.scores = cleared]

\* score += best_scores[child][separator value][0].1 for the children
\* start_index_children .. start_index_children + b - 1 that exist.
\* ok = FALSE: a separator variable is missing from the parent clique, or the
\* child recorded no tuple for the separator value (index 0 out of bounds).
RECURSIVE AddChildren(_, _, _, _, _, _, _, _)
AddChildren(p, cl, sep, best_scores, parent, clique_substring, child_index, acc) ==
    IF child_index >= acc.stop \/ child_index >= p.m \/ ~acc.ok THEN acc
    ELSE LET ss  == get_child_separator_substring(
                        cl[parent + 1], sep[child_index + 1], clique_substring)
             idx == transform_substring_vector_to_index(ss.sub)
             rec == best_scores[child_index + 1][idx + 1]
         IN  IF ~ss.ok \/ rec = <<>>
             THEN [acc EXCEPT !.ok = FALSE,
                              !.read = Append(@, child_index)]
             ELSE AddChildren(p, cl, sep, best_scores, parent,
                              clique_substring, child_index + 1,
                              [acc EXCEPT !.score = @ + rec[1].score,
                                          !.read = Append(@, child_index)])

\* Variant of EliminationScan that takes the separator value as the least
\* significant bits of the table index.
RECURSIVE EliminationScan_SeparatorBitsLast(_, _, _, _, _, _, _, _, _)
EliminationScan_SeparatorBitsLast(p, cv, cl, sep, best_scores, i, lv, j, st) ==
    LET free == Pow(2, p.k - p.o)
    IN  IF st.kk >= free \/ ~st.ok THEN st
        ELSE
          LET f == cv[i + 1][st.kk * Pow(2, p.o) + j + 1]
              start_index_children ==
                  lv.start_indices[lv.current_level + 2]
                  + p.b * (i - lv.start_index_current_level)
              withc ==
                IF i < lv.start_index_lowest_level
                THEN AddChildren(p, cl, sep, best_scores, i,
                       get_possible_substrings(p.k)[j * free + st.kk + 1],
                       start_index_children,
                       [score |-> f, ok |-> TRUE,
                        stop |-> start_index_children + p.b, read |-> <<>>])
                ELSE [score |-> f, ok |-> TRUE, stop |-> 0, read |-> <<>>]
              rec == RecordScore(st,
                       get_possible_substrings(p.k - p.o)[st.kk + 1],
                       withc.score)
          IN  EliminationScan_SeparatorBitsLast(p, cv, cl, sep, best_scores, i, lv, j,
                IF withc.ok
                THEN [rec EXCEPT !.kk = st.kk + 1, !.children = withc.read]
                ELSE [st EXCEPT !.ok = FALSE, !.children = withc.read])

\* The scan over the free values kk of clique i for the separator value j.
RECURSIVE EliminationScan(_, _, _, _, _, _, _, _, _)
EliminationScan(p, cv, cl, sep, best_scores, i, lv, j, st) ==
    LET free == Pow(2, p.k - p.o)
    IN  IF st.kk >= free \/ ~st.ok THEN st
        ELSE
          LET f == cv[i + 1][j * free + st.kk + 1]
              start_index_children ==
                  lv.start_indices[lv.current_level + 2]
                  + p.b * (i - lv.start_index_current_level)
              withc ==
                IF i < lv.start_index_lowest_level
                THEN AddChildren(p, cl, sep, best_scores, i,
                       get_possible_substrings(p.k)[j * free + st.kk + 1],
                       start_index_children,
                       [score |-> f, ok |-> TRUE,
                        stop |-> start_index_children + p.b, read |-> <<>>])
                ELSE [score |-> f, ok |-> TRUE, stop |-> 0, read |-> <<>>]
              rec == RecordScore(st,
                       get_possible_substrings(p.k - p.o)[st.kk + 1],
                       withc.score)
          IN  EliminationScan(p, cv, cl, sep, best_scores, i, lv, j,
                IF withc.ok
                THEN [rec EXCEPT !.kk = st.kk + 1, !.children = withc.read]
                ELSE [st EXCEPT !.ok = FALSE, !.children = withc.read])

\* for i in (1..m).rev(): fills best_scores[i][j] for every separator value j
RECURSIVE BottomUp(_, _, _, _, _, _, _)
BottomUp(p, cv, cl, sep, levels, i, st) ==
    IF i < 1 \/ ~st.ok THEN st
    ELSE
      LET down == i < st.start_index_current_level
          current_level == IF down THEN st.current_level - 1
                           ELSE st.current_level
          start_index_current_level ==
              IF down THEN levels.start_indices[current_level + 1]
              ELSE st.start_index_current_level
          lv == [start_indices |-> levels.start_indices,
                 start_index_lowest_level |-> levels.start_index_lowest_level,
                 current_level |-> current_level,
                 start_index_current_level |-> start_index_current_level]
          scans == Vec([j1 \in 1..Pow(2, p.o) |->
                      EliminationScan(p, cv, cl, sep, st.best_scores, i, lv,
                        j1 - 1,
                        [scores |-> <<>>, highest_score |-> 0, kk |-> 0,
                         ok |-> TRUE, children |-> <<>>])])
      IN  BottomUp(p, cv, cl, sep, levels, i - 1,
            [best_scores |->
                [st.best_scores EXCEPT
                    ![i + 1] = Vec([j1 \in 1..Pow(2, p.o) |->
                                      scans[j1].scores])],
             current_level |-> current_level,
             start_index_current_level |-> start_index_current_level,
             ok |-> \A j1 \in 1..Pow(2, p.o) : scans[j1].ok,
             children |-> Append(st.children, <<i, scans[1].children>>)])

\* The maximization at the root over all values c of the root clique.
RECURSIVE RootScan(_, _, _, _, _, _)
RootScan(p, cv, cl, sep, best_scores, st) ==
    IF st.kk >= Pow(2, p.k) \/ ~st.ok THEN st
    ELSE LET withc == AddChildren(p, cl, sep, best_scores, 0,
                        get_possible_substrings(p.k)[st.kk + 1], 1,
                        [score |-> cv[1][st.kk + 1], ok |-> TRUE,
                         stop |-> 1 + p.b, read |-> <<>>])
             rec == RecordScore(st, get_possible_substrings(p.k)[st.kk + 1],
                                withc.score)
         IN  RootScan(p, cv, cl, sep, best_scores,
               IF withc.ok
               THEN [rec EXCEPT !.kk = st.kk + 1, !.children = withc.read]
               ELSE [st EXCEPT !.ok = FALSE, !.children = withc.read])

\* Variant of ExtendStrings that does not delete a string it has cloned.
RECURSIVE ExtendStrings_WithoutDeletion(_, _, _, _, _, _)
ExtendStrings_WithoutDeletion(p, cl, sep, best_scores, child, st) ==
    IF st.s > Len(st.strings) \/ ~st.ok THEN st
    ELSE
      LET glob_opt_string == st.strings[st.s]
          separator_substring ==
              get_separator_substring_from_string(sep[child + 1],
                                                  glob_opt_string)
          idx == transform_substring_vector_to_index(separator_substring)
          c_without_s_substrings ==
              [t \in 1..Len(best_scores[child + 1][idx + 1]) |->
                  best_scores[child + 1][idx + 1][t].sub]
          number_maximizing_instances == Len(c_without_s_substrings)
          owned == [x \in 1..(p.k - p.o) |-> cl[child + 1][x + p.o]]
      IN  IF number_maximizing_instances = 1
          THEN ExtendStrings_WithoutDeletion(p, cl, sep, best_scores, child,
                 [st EXCEPT !.kept = Append(@,
                                WriteAll(glob_opt_string, owned,
                                         c_without_s_substrings[1], 1)),
                            !.s = @ + 1])
          ELSE IF number_maximizing_instances = 0
          THEN [st EXCEPT !.ok = FALSE]
          ELSE ExtendStrings_WithoutDeletion(p, cl, sep, best_scores, child,
                 [st EXCEPT !.kept = Append(@, glob_opt_string),
                            !.appended = @ \o
                                [t \in 1..number_maximizing_instances |->
                                   WriteAll(glob_opt_string, owned,
                                            c_without_s_substrings[t], 1)],
                            !.s = @ + 1])

\* The extension of the optimum strings by one child: every string s keeps
\* its place when the child recorded one maximizing instance for the separator
\* value read from s, and is otherwise replaced by one clone per maximizing
\* instance, appended at the end.  ok = FALSE is the assert_ne! on 0 instances.
RECURSIVE ExtendStrings(_, _, _, _, _, _)
ExtendStrings(p, cl, sep, best_scores, child, st) ==
    IF st.s > Len(st.strings) \/ ~st.ok THEN st
    ELSE
      LET glob_opt_string == st.strings[st.s]
          separator_substring ==
              get_separator_substring_from_string(sep[child + 1],
                                                  glob_opt_string)
          idx == transform_substring_vector_to_index(separator_substring)
          c_without_s_substrings ==
              [t \in 1..Len(best_scores[child + 1][idx + 1]) |->
                  best_scores[child + 1][idx + 1][t].sub]
          number_maximizing_instances == Len(c_without_s_substrings)
          owned == [x \in 1..(p.k - p.o) |-> cl[child + 1][x + p.o]]
      IN  IF number_maximizing_instances = 1
          THEN ExtendStrings(p, cl, sep, best_scores, child,
                 [st EXCEPT !.kept = Append(@,
                                WriteAll(glob_opt_string, owned,
                                         c_without_s_substrings[1], 1)),
                            !.s = @ + 1])
          ELSE IF number_maximizing_instances = 0
          THEN [st EXCEPT !.ok = FALSE]
          ELSE ExtendStrings(p, cl, sep, best_scores, child,
                 [st EXCEPT !.appended = @ \o
                                [t \in 1..number_maximizing_instances |->
                                   WriteAll(glob_opt_string, owned,
                                            c_without_s_substrings[t], 1)],
                            !.s = @ + 1])

\* Variant of SolverDivision that leaves out a last parent with fewer than b
\* children.
SolverDivision_RoundedDown(p) == (p.m - 1) \div p.b

SolverDivision(p) ==
    ((p.m - 1) \div p.b) + (IF (p.m - 1) % p.b > 0 THEN 1 ELSE 0)

\* for i in 0..division { for j in 0..b { ... } }
RECURSIVE TopDown(_, _, _, _, _, _, _, _)
TopDown(p, cl, sep, best_scores, start_indices, i, j, st) ==
    IF i >= SolverDivision(p) \/ ~st.ok THEN st
    ELSE IF st.current_level >= Len(start_indices) - 1
    THEN TopDown(p, cl, sep, best_scores, start_indices, i + 1, 0, st)
    ELSE
      LET up == j = 0 /\ i >= start_indices[st.current_level + 2]
          current_level == IF up THEN st.current_level + 1
                           ELSE st.current_level
          start_index_current_level ==
              IF up THEN start_indices[current_level + 1]
              ELSE st.start_index_current_level
          st1 == [st EXCEPT !.current_level = current_level,
                            !.start_index_current_level =
                                start_index_current_level]
      IN  IF current_level + 2 > Len(start_indices)
          THEN [st1 EXCEPT !.ok = FALSE]
          ELSE IF j >= p.b \/ (i * p.b) + j >= p.m - 1
          THEN TopDown(p, cl, sep, best_scores, start_indices, i + 1, 0, st1)
          ELSE
            LET start_index_children ==
                    start_indices[current_level + 2]
                    + p.b * (i - start_index_current_level)
                current_child_index == start_index_children + j
                ext == ExtendStrings(p, cl, sep, best_scores,
                         current_child_index,
                         [strings |-> st1.strings, s |-> 1, kept |-> <<>>,
                          appended |-> <<>>, ok |-> TRUE])
            IN  TopDown(p, cl, sep, best_scores, start_indices, i, j + 1,
                  [st1 EXCEPT !.strings = ext.kept \o ext.appended,
                              !.ok = ext.ok,
                              !.children =
                                  Append(@, <<i, current_child_index>>)])

(***************************************************************************)
(* CliqueTree::calculate_global_optima.  ok = FALSE stands for a panic.    *)
(***************************************************************************)
\* what calculate_global_optima returns after its three passes
ReturnOptima(bu, root, td) ==
    LET children == [bottom_up |-> bu.children, root |-> root.children,
                     top_down |-> td.children]
    IN  IF bu.ok /\ root.ok /\ td.ok
        THEN [ok |-> TRUE, path |-> "elimination",
              score |-> root.scores[1].score, strings |-> td.strings,
              best_scores |-> bu.best_scores, children |-> children]
        ELSE [ok |-> FALSE, path |-> "elimination", score |-> 0,
              strings |-> <<>>, best_scores |-> bu.best_scores,
              children |-> children]

\* the global strings that the root's tuples start the top-down pass with
RootStrings(p, cl, root) ==
    Vec([t \in 1..Len(root.scores) |->
           WriteAll(Repeat(0, ProblemSize(p)), cl[1], root.scores[t].sub, 1)])

\* the top-down pass, given the results of the two passes before it
TopDownPass(p, cl, sep, levels, bu, root) ==
    ReturnOptima(bu, root,
        TopDown(p, cl, sep, bu.best_scores, levels.start_indices, 0, 0,
                [strings |-> RootStrings(p, cl, root), current_level |-> 0,
                 start_index_current_level |-> 0, ok |-> root.ok,
                 children |-> <<>>]))

\* the root maximization, given the result of the bottom-up pass
RootPass(p, cv, cl, sep, levels, bu) ==
    TopDownPass(p, cl, sep, levels, bu,
        RootScan(p, cv, cl, sep, bu.best_scores,
                 [scores |-> <<>>, highest_score |-> 0, kk |-> 0,
                  ok |-> bu.ok, children |-> <<>>]))

\* the bottom-up pass over the cliques M-1 .. 1
BottomUpPass(p, cv, cl, sep, levels) ==
    RootPass(p, cv, cl, sep, levels,
        BottomUp(p, cv, cl, sep, levels, p.m - 1,
                 [best_scores |-> Vec([c \in 1..p.m |->
                                     Vec([j1 \in 1..Pow(2, p.o) |-> <<>>])]),
                  current_level |-> levels.lowest_level,
                  start_index_current_level |->
                      levels.start_index_lowest_level,
                  ok |-> TRUE, children |-> <<>>]))

calculate_global_optima_general(p, cv, cl, sep) ==
    BottomUpPass(p, cv, cl, sep, Levels(p))

\* Variant of calculate_global_optima without the dispatch on o = 0.
calculate_global_optima_NoDispatch(p, cv, cl, sep) ==
    calculate_global_optima_general(p, cv, cl, sep)

calculate_global_optima(p, cv, cl, sep) ==
    IF p.o = 0
    THEN calculate_global_optimum_separable(p, cv, cl)
    ELSE calculate_global_optima_general(p, cv, cl, sep)

(***************************************************************************)
(* Fitness evaluation.                                                     *)
(***************************************************************************)
\* Variant of CliqueIndexLoop that packs the clique's first variable as the
\* least significant bit.
RECURSIVE CliqueIndexLoop_LsbFirst(_, _, _, _)
CliqueIndexLoop_LsbFirst(clique, sol, j, clique_substring_as_index) ==
    IF j < 0 THEN clique_substring_as_index
    ELSE CliqueIndexLoop_LsbFirst(clique, sol, j - 1,
           clique_substring_as_index + sol[clique[j + 1] + 1] * Pow(2, j))

\* for j in (0..clique.len()).rev() { index += solution[clique[j]] << (len-j-1) }
RECURSIVE CliqueIndexLoop(_, _, _, _)
CliqueIndexLoop(clique, sol, j, clique_substring_as_index) ==
    IF j < 0 THEN clique_substring_as_index
    ELSE CliqueIndexLoop(clique, sol, j - 1,
           clique_substring_as_index
           + sol[clique[j + 1] + 1] * Pow(2, Len(clique) - j - 1))

CliqueIndex(clique, sol) == CliqueIndexLoop(clique, sol, Len(clique) - 1, 0)

RECURSIVE FitnessLoop(_, _, _, _, _)
FitnessLoop(cl, cv, sol, clique_index, fit) ==
    IF clique_index >= Len(cl) THEN fit
    ELSE FitnessLoop(cl, cv, sol, clique_index + 1,
           fit + cv[clique_index + 1]
                   [CliqueIndex(cl[clique_index + 1], sol) + 1])

calculate_fitness(cl, cv, sol) == FitnessLoop(cl, cv, sol, 0, 0)

\* Variant of DeltaClique that adds the current contribution and subtracts
\* the new one.
DeltaClique_SignsSwapped(clique, table, sol, index_mutation, fit) ==
    IF ~Contains(clique, index_mutation) THEN fit
    ELSE LET clique_substring_as_index == CliqueIndex(clique, sol)
             clique_mutation_index == Position(clique, index_mutation) - 1
             weight == Pow(2, Len(clique) - clique_mutation_index - 1)
             mutated ==
               IF sol[clique[clique_mutation_index + 1] + 1] = 0
               THEN clique_substring_as_index + weight
               ELSE clique_substring_as_index - weight
         IN  fit + table[clique_substring_as_index + 1] - table[mutated + 1]

\* One clique of calculate_fitness_delta: subtract the current contribution,
\* flip the bit of the mutated variable in the index, add the new one.
DeltaClique(clique, table, sol, index_mutation, fit) ==
    IF ~Contains(clique, index_mutation) THEN fit
    ELSE LET clique_substring_as_index == CliqueIndex(clique, sol)
             clique_mutation_index == Position(clique, index_mutation) - 1
             weight == Pow(2, Len(clique) - clique_mutation_index - 1)
             mutated ==
               IF sol[clique[clique_mutation_index + 1] + 1] = 0
               THEN clique_substring_as_index + weight
               ELSE clique_substring_as_index - weight
         IN  fit - table[clique_substring_as_index + 1] + table[mutated + 1]

RECURSIVE DeltaLoop(_, _, _, _, _, _)
DeltaLoop(cl, cv, sol, index_mutation, clique_index, fit) ==
    IF clique_index >= Len(cl) THEN fit
    ELSE DeltaLoop(cl, cv, sol, index_mutation, clique_index + 1,
           DeltaClique(cl[clique_index + 1], cv[clique_index + 1], sol,
                       index_mutation, fit))

calculate_fitness_delta(cl, cv, sol, fit, index_mutation) ==
    DeltaLoop(cl, cv, sol, index_mutation, 0, fit)

\* Variant of is_global_optimum that accepts every fitness within the
\* tolerance of the cached score.
is_global_optimum_WithoutMembership(strings, score, sol, fit) ==
    \/ fit = score
    \/ Abs(score - fit) < FITNESS_EPSILON

\* CliqueTree::is_global_optimum on the SolutionFit (sol, fit)
is_global_optimum(strings, score, sol, fit) ==
    \/ fit = score
    \/ (Abs(score - fit) < FITNESS_EPSILON /\ Contains(strings, sol))

(***************************************************************************)
(* InputParameters::from_line_iterator.  A line is a vector of characters, *)
(* the iterator the vector of the lines it has not yielded yet.            *)
(***************************************************************************)
DecimalDigits == <<"0", "1", "2", "3", "4", "5", "6", "7", "8", "9">>

IsDigit(ch) == \E v \in 1..10 : DecimalDigits[v] = ch

\* char::to_digit(10)
DigitValue(ch) == (CHOOSE v \in 1..10 : DecimalDigits[v] = ch) - 1

\* line.split(' ').collect(): the pieces between the spaces, empty ones kept
RECURSIVE SplitLoop(_, _, _, _)
SplitLoop(line, i, piece, pieces) ==
    IF i > Len(line) THEN Append(pieces, piece)
    ELSE IF line[i] = " "
         THEN SplitLoop(line, i + 1, <<>>, Append(pieces, piece))
         ELSE SplitLoop(line, i + 1, Append(piece, line[i]), pieces)

Split(line) == SplitLoop(line, 1, <<>>, <<>>)

\* str::parse::<u32>() on the tokens the model draws (digits, spaces and
\* letters, too short to exceed u32::MAX): an empty token and a token with
\* a character that is not a digit are errors
RECURSIVE ParseLoop(_, _, _)
ParseLoop(token, i, result) ==
    IF i > Len(token) THEN [ok |-> TRUE, value |-> result]
    ELSE IF ~IsDigit(token[i]) THEN [ok |-> FALSE, value |-> 0]
    ELSE ParseLoop(token, i + 1, result * 10 + DigitValue(token[i]))

ParseU32(token) ==
    IF token = <<>> THEN [ok |-> FALSE, value |-> 0]
    ELSE ParseLoop(token, 1, 0)

\* the value InputParameters has before a line is read
NoParameters == [m |-> 0, k |-> 0, o |-> 0, b |-> 0]

\* Variant of from_line_iterator that only rejects lines with fewer than 4
\* tokens.
from_line_iterator_AtLeastFour(iterator) ==
    IF iterator = <<>>
    THEN [ok |-> FALSE, parameters |-> NoParameters, rest |-> iterator]
    ELSE LET parameters == Split(Head(iterator))
             rest == Tail(iterator)
         IN  IF Len(parameters) < 4
             THEN [ok |-> FALSE, parameters |-> NoParameters, rest |-> rest]
             ELSE LET m == ParseU32(parameters[1])
                      k == ParseU32(parameters[2])
                      o == ParseU32(parameters[3])
                      b == ParseU32(parameters[4])
                  IN  IF m.ok /\ k.ok /\ o.ok /\ b.ok
                      THEN [ok |-> TRUE,
                            parameters |-> [m |-> m.value, k |-> k.value,
                                            o |-> o.value, b |-> b.value],
                            rest |-> rest]
                      ELSE [ok |-> FALSE, parameters |-> NoParameters,
                            rest |-> rest]

\* ok = FALSE is the Err; rest is the iterator after the call
from_line_iterator(iterator) ==
    IF iterator = <<>>
    THEN [ok |-> FALSE, parameters |-> NoParameters, rest |-> iterator]
    ELSE LET parameters == Split(Head(iterator))
             rest == Tail(iterator)
         IN  IF Len(parameters) # 4
             THEN [ok |-> FALSE, parameters |-> NoParameters, rest |-> rest]
             ELSE LET m == ParseU32(parameters[1])
                      k == ParseU32(parameters[2])
                      o == ParseU32(parameters[3])
                      b == ParseU32(parameters[4])
                  IN  IF m.ok /\ k.ok /\ o.ok /\ b.ok
                      THEN [ok |-> TRUE,
                            parameters |-> [m |-> m.value, k |-> k.value,
                                            o |-> o.value, b |-> b.value],
                            rest |-> rest]
                      ELSE [ok |-> FALSE, parameters |-> NoParameters,
                            rest |-> rest]

(***************************************************************************)
(* The codomain file (codomain.rs): write_codomain and read_codomain.  A   *)
(* file is the vector of its lines.  A value is written as the decimal     *)
(* numeral of its count of model units, with a minus sign when negative.   *)
(***************************************************************************)
\* format!("{}", n) for an unsigned integer
RECURSIVE FormatU32(_)
FormatU32(n) ==
    IF n < 10 THEN <<DecimalDigits[n + 1]>>
    ELSE Append(FormatU32(n \div 10), DecimalDigits[(n % 10) + 1])

\* format!("{}", value) for a codomain value
FormatValue(value) ==
    IF value < 0 THEN <<"-">> \o FormatU32(0 - value) ELSE FormatU32(value)

\* str::parse::<f64>() on a line of a codomain file: an optional sign and
\* a non-empty run of digits
ParseValue(line) ==
    LET signed == line # <<>> /\ line[1] \in {"-", "+"}
        digits == IF signed THEN Tail(line) ELSE line
        parsed == ParseU32(digits)
    IN  [ok    |-> parsed.ok,
         value |-> IF signed /\ line[1] = "-" THEN 0 - parsed.value
                   ELSE parsed.value]

\* the Display of the codomain function on the first line
FunctionLine == <<"u", "n", "k", "n", "o", "w", "n">>

ParameterLine(p) ==
    FormatU32(p.m) \o <<" ">> \o FormatU32(p.k) \o <<" ">>
        \o FormatU32(p.o) \o <<" ">> \o FormatU32(p.b)

\* for clique in codomain { for value in clique { writeln!(value) } }
RECURSIVE WriteValues(_, _, _, _)
WriteValues(codomain, c, j, lines) ==
    IF c > Len(codomain) THEN lines
    ELSE IF j > Len(codomain[c]) THEN WriteValues(codomain, c + 1, 1, lines)
    ELSE WriteValues(codomain, c, j + 1,
                     Append(lines, FormatValue(codomain[c][j])))

\* Variant of write_codomain that writes value j of every clique before
\* value j + 1 of any clique.
write_codomain_IndexMajor(p, codomain) ==
    <<FunctionLine, ParameterLine(p)>> \o
        [i \in 1..(Len(codomain) * Len(codomain[1])) |->
            FormatValue(codomain[((i - 1) % Len(codomain)) + 1]
                                [((i - 1) \div Len(codomain)) + 1])]

\* the lines of the file that write_codomain creates
write_codomain(p, codomain) ==
    WriteValues(codomain, 1, 1, <<FunctionLine, ParameterLine(p)>>)

\* The two loops of get_codomain_from_iterator over the lines left after
\* the skipped ones; ok = FALSE is the Err of a missing or unparsable line.
RECURSIVE ReadValues(_, _, _, _, _, _)
ReadValues(p, lines, at, i, j, st) ==
    IF i >= p.m \/ ~st.ok THEN st
    ELSE IF j >= Pow(2, p.k)
    THEN ReadValues(p, lines, at, i + 1, 0,
                    [ok |-> TRUE,
                     codomain |-> Append(st.codomain, st.clique_codomain),
                     clique_codomain |-> <<>>])
    ELSE IF at > Len(lines) \/ ~ParseValue(lines[at]).ok
    THEN [ok |-> FALSE, codomain |-> <<>>, clique_codomain |-> <<>>]
    ELSE ReadValues(p, lines, at + 1, i, j + 1,
                    [st EXCEPT !.clique_codomain =
                                  Append(@, ParseValue(lines[at]).value)])

get_codomain_from_iterator(lines, skip_number_lines, p) ==
    LET r == ReadValues(p, lines, skip_number_lines + 1, 0, 0,
                        [ok |-> TRUE, codomain |-> <<>>,
                         clique_codomain |-> <<>>])
    IN  [ok |-> r.ok, codomain |-> r.codomain]

\* fs::read_to_string(codomain_file)?.lines() and get_codomain_from_iterator
read_codomain(p, codomain_file, skip_number_lines) ==
    get_codomain_from_iterator(codomain_file, skip_number_lines, p)

\* The lines and the iterators the model draws.
LineCharacters == {"1", "2", " ", "x"}

DrawnLines == UNION {[1..len -> LineCharacters] : len \in 0..MaxLineLength}

\* no line, one line, or one line followed by a further line
Iterators ==
    {<<>>} \cup {<<line>> \o further : line \in DrawnLines,
                                       further \in {<<>>, <<<<"2", "x">>>>}}

(***************************************************************************)
(* The codomain tables the model draws: M tables of 2^k values that are 0  *)
(* except in at most `peaks` entries, which hold a value half a tolerance  *)
(* or a whole tolerance above or below 0.                                  *)
(***************************************************************************)
CodomainLevels == {-2, -1, 1, 2}

CodomainTables(p, peaks) ==
    LET cells == (1..p.m) \X (1..Pow(2, p.k))
        none  == <<0, 0>>
    IN  {Vec([c \in 1..p.m |->
            Vec([x \in 1..Pow(2, p.k) |->
                IF \E t \in 1..peaks : at[t] = <<c, x>>
                THEN lv[CHOOSE t \in 1..peaks :
                          at[t] = <<c, x>>
                          /\ \A h \in 1..(t - 1) : at[h] # <<c, x>>]
                ELSE 0])]) :
         at \in [1..peaks -> cells \cup {none}],
         lv \in [1..peaks -> CodomainLevels]}

\* The tables with at most one non-zero entry.
SinglePeakTables(p) == CodomainTables(p, 1)

\* The tables in which one clique's values rise by half a tolerance from one
\* entry to the next and the other cliques' values are 0.
StaircaseTables(p) ==
    {Vec([c \in 1..p.m |->
        Vec([x \in 1..Pow(2, p.k) |-> IF c = rising THEN x - 1 ELSE 0])]) :
     rising \in 1..p.m}

\* The tables of the instances that a caller evaluates.
EvaluatedTables(p) == SinglePeakTables(p) \cup StaircaseTables(p)

Solutions(p) == [1..ProblemSize(p) -> {0, 1}]

(***************************************************************************)
(* The reference fixture of tests/integration_test.rs: the instance that   *)
(* the problem generator writes for M=5, k=3, o=1, b=2 under the seed      *)
(* 2398, and its deceptive-trap codomain file.  The file's values are      *)
(* multiples of 0.1 up to an f64 rounding error far below the tolerance.   *)
(* One tenth is 2 * 10^9 model units, which is beyond TLC's integers once  *)
(* summed, so a tenth is counted as 1000 units here: all differences       *)
(* between sums of these values are 0 or at least a tenth, and every       *)
(* tolerance comparison has the same outcome at either scale.              *)
(***************************************************************************)
Tenths(t) == t * 1000

FixtureParameters == [m |-> 5, k |-> 3, o |-> 1, b |-> 2]

FixtureCliques ==
    <<<<9, 8, 10>>, <<9, 5, 4>>, <<9, 7, 0>>, <<4, 6, 1>>, <<9, 3, 2>>>>

\* the first variable of each non-root clique
FixtureSeparators == <<<<>>, <<9>>, <<9>>, <<4>>, <<9>>>>

\* the permutation of the variable indices that yields FixtureCliques
FixtureIndices == <<9, 8, 10, 5, 4, 7, 0, 6, 1, 3, 2>>

FixtureCodomain ==
    <<<<Tenths(3), Tenths(6), Tenths(10), Tenths(3), Tenths(6), Tenths(9), Tenths(3), Tenths(6)>>,
      <<Tenths(6), Tenths(3), Tenths(9), Tenths(6), Tenths(3), Tenths(10), Tenths(6), Tenths(3)>>,
      <<Tenths(6), Tenths(3), Tenths(9), Tenths(6), Tenths(3), Tenths(10), Tenths(6), Tenths(3)>>,
      <<Tenths(3), Tenths(6), Tenths(10), Tenths(3), Tenths(6), Tenths(9), Tenths(3), Tenths(6)>>,
      <<Tenths(3), Tenths(6), Tenths(10), Tenths(3), Tenths(6), Tenths(9), Tenths(3), Tenths(6)>>>>

(***************************************************************************)
(* The state machine.                                                      *)
(***************************************************************************)
InitWith(parameters) ==
    /\ pc = "start"
    /\ input_parameters \in parameters
    /\ rng = 0
    /\ indices = <<>>
    /\ cliques = <<>>
    /\ separators = <<>>
    /\ codomain_values = <<>>
    /\ glob_optima_strings = <<>>
    /\ glob_optima_score = 0
    /\ path = "none"
    /\ solution = <<>>
    /\ fitness = 0
    /\ number_evaluations = 0
    /\ shuffled = <<>>
    /\ is_optimum = <<>>
    /\ content_iterator = <<>>
    /\ from_line_result = <<>>
    /\ file = <<>>
    /\ read_result = <<>>
    /\ elimination_result = <<>>
    /\ comparison = <<>>
    /\ stored_best_scores = <<>>
    /\ children_read = <<>>
    /\ configuration_iterator = <<>>
    /\ yielded = <<>>
    /\ sampled = <<>>

Init == InitWith(InputParameters)

\* CliqueTree::new, first step: construct
ConstructReturns(r) ==
    /\ indices' = r.indices
    /\ cliques' = r.cliques
    /\ separators' = r.separators
    /\ rng' = rng + r.shuffles
    /\ shuffled' = r.shuffled

Construct ==
    /\ pc = "start"
    /\ \E draws \in [1..input_parameters.m -> Draws] :
         ConstructReturns(ConstructResult(input_parameters, draws))
    /\ pc' = "built"
    /\ UNCHANGED <<input_parameters, codomain_values, glob_optima_strings,
                   glob_optima_score, path, solution, fitness,
                   number_evaluations, is_optimum, ioVars,
                   elimination_result, comparison, stored_best_scores,
                   children_read, configuration_iterator, yielded, sampled>>

\* CliqueTree::new, second step: calculate_global_optima on the constructed
\* tree and the caller's tables, and the caching of its result
\* r is what calculate_global_optima returned: global_opt_tuples[0].1 is the
\* cached score (a panic when there is no tuple), the strings are cached.
CacheOptima(cv, r) ==
    /\ codomain_values' = cv
    /\ path' = r.path
    /\ stored_best_scores' = r.best_scores
    /\ children_read' = r.children
    /\ IF r.ok /\ r.strings # <<>>
       THEN /\ pc' = "solved"
            /\ glob_optima_score' = r.score
            /\ glob_optima_strings' = r.strings
       ELSE /\ pc' = "aborted"
            /\ UNCHANGED <<glob_optima_score, glob_optima_strings>>
    /\ UNCHANGED <<input_parameters, rng, indices, cliques, separators,
                   solution, fitness, number_evaluations, shuffled,
                   is_optimum, ioVars, elimination_result, comparison,
                   configuration_iterator, yielded, sampled>>

Solve(cv) ==
    /\ pc = "built"
    /\ CacheOptima(cv, calculate_global_optima(input_parameters, cv, cliques,
                                               separators))

CalculateGlobalOptima ==
    /\ pc = "built"
    /\ input_parameters.m * Pow(2, input_parameters.k) <= MaxCells
    /\ \E cv \in CodomainTables(input_parameters, MaxPeaks) : Solve(cv)

\* the same step for an instance that a caller goes on to evaluate
NewForEvaluation ==
    /\ pc = "built"
    /\ ProblemSize(input_parameters) <= MaxEvalVariables
    /\ \E cv \in EvaluatedTables(input_parameters) : Solve(cv)

\* calculate_fitness on a solution of the caller's choice, by which the caller
\* creates its SolutionFit
CalculateFitness ==
    /\ pc = "solved"
    /\ solution = <<>>
    /\ number_evaluations < MaxEvaluations
    /\ \E x \in Solutions(input_parameters) :
         /\ solution' = x
         /\ fitness' = calculate_fitness(cliques, codomain_values, x)
    /\ number_evaluations' = number_evaluations + 1
    /\ is_optimum' = <<>>
    /\ UNCHANGED <<pc, input_parameters, rng, indices, cliques, separators,
                   codomain_values, glob_optima_strings, glob_optima_score,
                   path, shuffled, ioVars, elimination_result, comparison,
                   stored_best_scores, children_read,
                   configuration_iterator, yielded, sampled>>

\* Variant of the calculate_fitness_delta step that leaves the evaluation
\* counter as it was.
CalculateFitnessDelta_WithoutCount ==
    /\ pc = "solved"
    /\ solution # <<>>
    /\ number_evaluations < MaxEvaluations
    /\ \E index_mutation \in 0..(ProblemSize(input_parameters) - 1) :
         /\ fitness' = calculate_fitness_delta(cliques, codomain_values,
                                               solution, fitness,
                                               index_mutation)
         /\ solution' = [solution EXCEPT ![index_mutation + 1] = 1 - @]
    /\ number_evaluations' = number_evaluations
    /\ is_optimum' = <<>>
    /\ UNCHANGED <<pc, input_parameters, rng, indices, cliques, separators,
                   codomain_values, glob_optima_strings, glob_optima_score,
                   path, shuffled, ioVars, elimination_result, comparison,
                   stored_best_scores, children_read,
                   configuration_iterator, yielded, sampled>>

\* calculate_fitness_delta on the caller's current SolutionFit; the caller
\* then flips the bit and carries the returned fitness
CalculateFitnessDelta ==
    /\ pc = "solved"
    /\ solution # <<>>
    /\ number_evaluations < MaxEvaluations
    /\ \E index_mutation \in 0..(ProblemSize(input_parameters) - 1) :
         /\ fitness' = calculate_fitness_delta(cliques, codomain_values,
                                               solution, fitness,
                                               index_mutation)
         /\ solution' = [solution EXCEPT ![index_mutation + 1] = 1 - @]
    /\ number_evaluations' = number_evaluations + 1
    /\ is_optimum' = <<>>
    /\ UNCHANGED <<pc, input_parameters, rng, indices, cliques, separators,
                   codomain_values, glob_optima_strings, glob_optima_score,
                   path, shuffled, ioVars, elimination_result, comparison,
                   stored_best_scores, children_read,
                   configuration_iterator, yielded, sampled>>

\* is_global_optimum on the caller's current SolutionFit; is_optimum holds
\* the returned value until the caller's next call
IsGlobalOptimum ==
    /\ pc = "solved"
    /\ solution # <<>>
    /\ is_optimum = <<>>
    /\ is_optimum' = <<is_global_optimum(glob_optima_strings,
                                         glob_optima_score, solution,
                                         fitness)>>
    /\ UNCHANGED <<pc, input_parameters, rng, indices, cliques, separators,
                   codomain_values, glob_optima_strings, glob_optima_score,
                   path, solution, fitness, number_evaluations, shuffled,
                   ioVars, elimination_result, comparison,
                   stored_best_scores, children_read,
                   configuration_iterator, yielded, sampled>>

\* construct under the seed of the reference fixture: the shuffles return
\* the permutation and the separators of the expected problem file
ConstructFixture ==
    /\ pc = "start"
    /\ input_parameters = FixtureParameters
    /\ indices' = FixtureIndices
    /\ cliques' = FixtureCliques
    /\ separators' = FixtureSeparators
    /\ rng' = rng + 5
    /\ shuffled' = <<Vec([x \in 1..11 |-> x - 1]), FixtureCliques[1],
                     FixtureCliques[1], FixtureCliques[2], FixtureCliques[2]>>
    /\ pc' = "built"
    /\ UNCHANGED <<input_parameters, codomain_values, glob_optima_strings,
                   glob_optima_score, path, solution, fitness,
                   number_evaluations, is_optimum, ioVars,
                   elimination_result, comparison, stored_best_scores,
                   children_read, configuration_iterator, yielded, sampled>>

\* CliqueTree::new, second step, on the fixture's codomain file
SolveFixture ==
    /\ pc = "built"
    /\ input_parameters = FixtureParameters
    /\ cliques = FixtureCliques
    /\ Solve(FixtureCodomain)

\* A caller that reads the parameters from the lines of a file
\* (io.rs, get_clique_tree_from_codomain_file).
InitLines ==
    /\ pc = "reading"
    /\ input_parameters = NoParameters
    /\ content_iterator \in Iterators
    /\ rng = 0
    /\ indices = <<>>
    /\ cliques = <<>>
    /\ separators = <<>>
    /\ codomain_values = <<>>
    /\ glob_optima_strings = <<>>
    /\ glob_optima_score = 0
    /\ path = "none"
    /\ solution = <<>>
    /\ fitness = 0
    /\ number_evaluations = 0
    /\ shuffled = <<>>
    /\ is_optimum = <<>>
    /\ from_line_result = <<>>
    /\ file = <<>>
    /\ read_result = <<>>
    /\ elimination_result = <<>>
    /\ comparison = <<>>
    /\ stored_best_scores = <<>>
    /\ children_read = <<>>
    /\ configuration_iterator = <<>>
    /\ yielded = <<>>
    /\ sampled = <<>>

\* r is what from_line_iterator returned; on an Err the caller returns it
FromLineIteratorReturns(r) ==
    /\ content_iterator' = r.rest
    /\ from_line_result' = <<IF r.ok THEN "Ok" ELSE "Err">>
    /\ IF r.ok
       THEN input_parameters' = r.parameters /\ pc' = "start"
       ELSE input_parameters' = input_parameters /\ pc' = "rejected"

FromLineIterator ==
    /\ pc = "reading"
    /\ FromLineIteratorReturns(from_line_iterator(content_iterator))
    /\ UNCHANGED <<rng, indices, cliques, separators, codomain_values,
                   glob_optima_strings, glob_optima_score, path, solution,
                   fitness, number_evaluations, shuffled, is_optimum, file,
                   read_result, elimination_result, comparison,
                   stored_best_scores, children_read,
                   configuration_iterator, yielded, sampled>>

NextLines == FromLineIterator

SpecLines == InitLines /\ [][NextLines]_vars

\* Trees of up to MaxTreeM cliques of two variables with one separator
\* variable, solved with a table whose values are all epsilon apart.
TreeParameters ==
    {[m |-> m, k |-> 2, o |-> 1, b |-> b] : m \in 1..MaxTreeM, b \in 1..MaxB}

DescendingTable(p) ==
    [c \in 1..p.m |->
        [idx \in 1..Pow(2, p.k) |-> 0 - FITNESS_EPSILON * (idx - 1)]]

SolveTree ==
    /\ pc = "built"
    /\ Solve(DescendingTable(input_parameters))

InitTree == InitWith(TreeParameters)

NextTree == Construct \/ SolveTree

SpecTree == InitTree /\ [][NextTree]_vars

(***************************************************************************)
(* ConfigurationParametersIterator (configuration.rs).  An Option is a     *)
(* sequence: <<>> is None, <<x>> is Some(x).                               *)
(***************************************************************************)
new_from_primitives(m, k, o, b) == [m |-> m, k |-> k, o |-> o, b |-> b]

\* ConfigurationParametersIterator::from_configuration_parameters
into_iter(c) ==
    [m_begin |-> c.m_begin, m_end |-> c.m_end,
     k_begin |-> c.k_begin, k_end |-> c.k_end,
     o_begin |-> c.o_begin, o_end |-> c.o_end,
     b_begin |-> c.b_begin, b_end |-> c.b_end,
     current_parameters |-> new_from_primitives(0, 0, 0, 0)]

\* Variant of next that resets o, but not b, when k advances.
next_WithoutResetOfB(self) ==
    LET cur == self.current_parameters
        some(p) == [iterator |-> [self EXCEPT !.current_parameters = p],
                    item |-> <<p>>]
    IN  IF cur.m = 0
        THEN some(new_from_primitives(self.m_begin, self.k_begin,
                                      self.o_begin, self.b_begin))
        ELSE IF cur.b < self.b_end - 1
        THEN some([cur EXCEPT !.b = @ + 1])
        ELSE IF cur.o < self.o_end - 1
        THEN some([cur EXCEPT !.o = @ + 1, !.b = self.b_begin])
        ELSE IF cur.k < self.k_end - 1
        THEN some([cur EXCEPT !.k = @ + 1, !.o = self.o_begin])
        ELSE IF cur.m < self.m_end - 1
        THEN some([cur EXCEPT !.m = @ + 1, !.k = self.k_begin,
                              !.o = self.o_begin, !.b = self.b_begin])
        ELSE [iterator |-> self, item |-> <<>>]

\* Iterator::next: the iterator after the call and the Option returned
next(self) ==
    LET cur == self.current_parameters
        some(p) == [iterator |-> [self EXCEPT !.current_parameters = p],
                    item |-> <<p>>]
    IN  IF cur.m = 0
        THEN some(new_from_primitives(self.m_begin, self.k_begin,
                                      self.o_begin, self.b_begin))
        ELSE IF cur.b < self.b_end - 1
        THEN some([cur EXCEPT !.b = @ + 1])
        ELSE IF cur.o < self.o_end - 1
        THEN some([cur EXCEPT !.o = @ + 1, !.b = self.b_begin])
        ELSE IF cur.k < self.k_end - 1
        THEN some([cur EXCEPT !.k = @ + 1, !.o = self.o_begin,
                              !.b = self.b_begin])
        ELSE IF cur.m < self.m_end - 1
        THEN some([cur EXCEPT !.m = @ + 1, !.k = self.k_begin,
                              !.o = self.o_begin, !.b = self.b_begin])
        ELSE [iterator |-> self, item |-> <<>>]

\* The configurations drawn: every range is begin..end-1 with
\* begin < end <= begin + MaxExtent; m begins at one of m_begins.
ConfigurationParameters(m_begins) ==
    {[m_begin |-> mb, m_end |-> mb + me, k_begin |-> kb, k_end |-> kb + ke,
      o_begin |-> ob, o_end |-> ob + oe, b_begin |-> bb, b_end |-> bb + be] :
        mb \in m_begins, kb \in {1, 2}, ob \in {0, 1}, bb \in {1, 2},
        me \in 1..MaxExtent, ke \in 1..MaxExtent, oe \in 1..MaxExtent,
        be \in 1..MaxExtent}

\* the number of tuples of a configuration
NumberOfTuples(c) ==
    (c.m_end - c.m_begin) * (c.k_end - c.k_begin) * (c.o_end - c.o_begin)
        * (c.b_end - c.b_begin)

InitConfigurationWith(m_begins) ==
    /\ pc = "iterating"
    /\ input_parameters = NoParameters
    /\ configuration_iterator \in
          {<<into_iter(c)>> : c \in ConfigurationParameters(m_begins)}
    /\ yielded = <<>>
    /\ rng = 0
    /\ indices = <<>>
    /\ cliques = <<>>
    /\ separators = <<>>
    /\ codomain_values = <<>>
    /\ glob_optima_strings = <<>>
    /\ glob_optima_score = 0
    /\ path = "none"
    /\ solution = <<>>
    /\ fitness = 0
    /\ number_evaluations = 0
    /\ shuffled = <<>>
    /\ is_optimum = <<>>
    /\ content_iterator = <<>>
    /\ from_line_result = <<>>
    /\ file = <<>>
    /\ read_result = <<>>
    /\ elimination_result = <<>>
    /\ comparison = <<>>
    /\ stored_best_scores = <<>>
    /\ children_read = <<>>
    /\ sampled = <<>>

\* one call of next() by the caller that owns the iterator
IteratorNext ==
    /\ pc = "iterating"
    /\ Len(yielded) <
          NumberOfTuples(configuration_iterator[1]) + MaxCallsAfterEnd
    /\ LET r == next(configuration_iterator[1])
       IN  /\ configuration_iterator' = <<r.iterator>>
           /\ yielded' = Append(yielded, r.item)
    /\ UNCHANGED <<pc, input_parameters, rng, indices, cliques, separators,
                   codomain_values, glob_optima_strings, glob_optima_score,
                   path, solution, fitness, number_evaluations, shuffled,
                   is_optimum, ioVars, elimination_result, comparison,
                   stored_best_scores, children_read, sampled>>

\* Configurations with m_begin >= 1.
InitConfiguration == InitConfigurationWith({1, 2})

NextConfiguration == IteratorNext

SpecConfiguration == InitConfiguration /\ [][NextConfiguration]_vars

\* Configurations with any m_begin.
InitAnyConfiguration == InitConfigurationWith({0, 1})

SpecAnyConfiguration == InitAnyConfiguration /\ [][NextConfiguration]_vars

(***************************************************************************)
(* generate_trap_general (codomain_subclasses.rs).  rng is the sequence of *)
(* values the die samples, in the order of the draws.  Values are in the   *)
(* unit of Tenths; 0.9 / k is exact in it for every k up to MaxTrapK + 1.  *)
(***************************************************************************)
get_hamming_distance_to_solution(target_solution, candidate) ==
    Cardinality({i \in 1..Len(candidate) :
                    target_solution[i] # candidate[i]})

\* get_random_solution after `used` samples have been taken from the stream
get_random_solution(problem_size, stream, used) ==
    Vec([pos \in 1..problem_size |-> stream[used + pos]])

\* the value of one entry, from its distance to the local deceptor
TrapValue(k, distance_to_deceptor) ==
    IF distance_to_deceptor = k
    THEN Tenths(10)
    ELSE Tenths(9) - distance_to_deceptor * (Tenths(9) \div k)

\* Variant of generate_trap_general that fills the tables from the last
\* clique to the first.
generate_trap_general_LastCliqueFirst(p, stream) ==
    LET possible_clique_substrings == get_possible_substrings(p.k)
    IN  [i \in 1..p.m |->
            LET local_deceptor ==
                    get_random_solution(p.k, stream, (p.m - i) * p.k)
            IN  [j \in 1..Len(possible_clique_substrings) |->
                    TrapValue(p.k, get_hamming_distance_to_solution(
                                       local_deceptor,
                                       possible_clique_substrings[j]))]]

generate_trap_general(p, stream) ==
    LET possible_clique_substrings == get_possible_substrings(p.k)
    IN  [i \in 1..p.m |->
            LET local_deceptor ==
                    get_random_solution(p.k, stream, (i - 1) * p.k)
            IN  [j \in 1..Len(possible_clique_substrings) |->
                    TrapValue(p.k, get_hamming_distance_to_solution(
                                       local_deceptor,
                                       possible_clique_substrings[j]))]]

\* generate_trap_general uses m and k only
TrapParameters ==
    {new_from_primitives(m, k, 0, 1) : m \in 1..MaxTrapM, k \in 1..MaxTrapK}

GenerateTrapGeneral ==
    /\ pc = "start"
    /\ \E stream \in [1..(input_parameters.m * input_parameters.k) -> 0..1] :
          /\ codomain_values' = generate_trap_general(input_parameters, stream)
          /\ sampled' = Vec(stream)
          /\ rng' = rng + Len(Vec(stream))
    /\ pc' = "generated"
    /\ UNCHANGED <<input_parameters, indices, cliques, separators,
                   glob_optima_strings, glob_optima_score, path, solution,
                   fitness, number_evaluations, shuffled, is_optimum, ioVars,
                   elimination_result, comparison, stored_best_scores,
                   children_read, configuration_iterator, yielded>>

InitTrap == InitWith(TrapParameters)

NextTrap == GenerateTrapGeneral

SpecTrap == InitTrap /\ [][NextTrap]_vars

\* The four comparators called by a caller on two fitness values.
ComparedFitnesses == (0 - MaxComparedFitness)..MaxComparedFitness

InitComparators ==
    /\ pc = "comparing"
    /\ input_parameters = NoParameters
    /\ comparison \in {<<[fitness1 |-> a, fitness2 |-> c]>> :
                           a \in ComparedFitnesses, c \in ComparedFitnesses}
    /\ rng = 0
    /\ indices = <<>>
    /\ cliques = <<>>
    /\ separators = <<>>
    /\ codomain_values = <<>>
    /\ glob_optima_strings = <<>>
    /\ glob_optima_score = 0
    /\ path = "none"
    /\ solution = <<>>
    /\ fitness = 0
    /\ number_evaluations = 0
    /\ shuffled = <<>>
    /\ is_optimum = <<>>
    /\ content_iterator = <<>>
    /\ from_line_result = <<>>
    /\ file = <<>>
    /\ read_result = <<>>
    /\ elimination_result = <<>>
    /\ stored_best_scores = <<>>
    /\ children_read = <<>>
    /\ configuration_iterator = <<>>
    /\ yielded = <<>>
    /\ sampled = <<>>

CompareFitness ==
    /\ pc = "comparing"
    /\ LET fitness1 == comparison[1].fitness1
           fitness2 == comparison[1].fitness2
       IN  comparison' =
             <<[fitness1 |-> fitness1, fitness2 |-> fitness2,
                better |-> is_better_fitness(fitness1, fitness2),
                worse |-> is_worse_fitness(fitness1, fitness2),
                better_or_equal |->
                    is_better_or_equal_fitness(fitness1, fitness2),
                equal |-> is_equal_fitness(fitness1, fitness2)]>>
    /\ pc' = "compared"
    /\ UNCHANGED <<input_parameters, rng, indices, cliques, separators,
                   codomain_values, glob_optima_strings, glob_optima_score,
                   path, solution, fitness, number_evaluations, shuffled,
                   is_optimum, ioVars, elimination_result,
                   stored_best_scores, children_read,
                   configuration_iterator, yielded, sampled>>

NextComparators == CompareFitness

SpecComparators == InitComparators /\ [][NextComparators]_vars

\* The elimination and root maximization of calculate_global_optima (the
\* code after the dispatch on o = 0) run on the cliques, separators and
\* tables of a separable instance that the separable path has solved.
EliminationReturns(r) ==
    elimination_result' = <<[ok |-> r.ok, score |-> r.score]>>

EliminateSeparable ==
    /\ pc = "solved"
    /\ input_parameters.o = 0
    /\ elimination_result = <<>>
    /\ EliminationReturns(calculate_global_optima_general(
                              input_parameters, codomain_values, cliques,
                              separators))
    /\ UNCHANGED <<pc, input_parameters, rng, indices, cliques, separators,
                   codomain_values, glob_optima_strings, glob_optima_score,
                   path, solution, fitness, number_evaluations, shuffled,
                   is_optimum, ioVars, comparison, stored_best_scores,
                   children_read, configuration_iterator, yielded, sampled>>

\* The trees a caller can supply in place of the tree tr that construct
\* returned: one separator variable of one non-root clique, which construct
\* keeps as one of the first o entries of that clique, is replaced by a
\* variable that is not in the parent clique.
CorruptedTrees(p, tr) ==
    {[cliques    |-> [tr.cliques EXCEPT ![c][x] = v],
      separators |-> [tr.separators EXCEPT ![c][x] = v]] :
        <<c, x, v>> \in
            {t \in (2..p.m) \X (1..p.o) \X (0..(ProblemSize(p) - 1)) :
                ~Contains(tr.cliques[((t[1] - 2) \div ConstructB(p)) + 1],
                          t[3])}}

\* r is what calculate_global_optima returned for the supplied tree tr and
\* the tables cv; it is cached as CliqueTree::new caches it.
CacheSupplied(tr, cv, r) ==
    /\ cliques' = tr.cliques
    /\ separators' = tr.separators
    /\ codomain_values' = cv
    /\ path' = r.path
    /\ stored_best_scores' = r.best_scores
    /\ children_read' = r.children
    /\ IF r.ok /\ r.strings # <<>>
       THEN /\ pc' = "solved"
            /\ glob_optima_score' = r.score
            /\ glob_optima_strings' = r.strings
       ELSE /\ pc' = "aborted"
            /\ UNCHANGED <<glob_optima_score, glob_optima_strings>>

\* calculate_global_optima, a pub fn, called with supplied cliques and
\* separators and the caching of CliqueTree::new applied to what it returns
SolveSupplied ==
    /\ pc = "built"
    /\ input_parameters.m * Pow(2, input_parameters.k) <= MaxCells
    /\ \E tr \in CorruptedTrees(input_parameters,
                [cliques |-> cliques, separators |-> separators]) :
       \E cv \in SinglePeakTables(input_parameters) :
         CacheSupplied(tr, cv,
                       calculate_global_optima(input_parameters, cv,
                                               tr.cliques, tr.separators))
    /\ UNCHANGED <<input_parameters, rng, indices, solution, fitness,
                   number_evaluations, shuffled, is_optimum, ioVars,
                   elimination_result, comparison, configuration_iterator,
                   yielded, sampled>>

\* CliqueTree::construct_from_problem_codomain: the Problem holds the
\* parameters, cliques, optimum strings and optimum score of an instance
\* solved earlier, with its cliques as stored or damaged; every field is
\* moved into the new CliqueTree.
ConstructFromProblemCodomain ==
    /\ pc = "solved"
    /\ \E tr \in CorruptedTrees(input_parameters,
                [cliques |-> cliques, separators |-> separators])
                \cup {[cliques |-> cliques, separators |-> separators]} :
         /\ cliques' = tr.cliques
         /\ separators' = tr.separators
    /\ pc' = "loaded"
    /\ UNCHANGED <<input_parameters, rng, indices, codomain_values,
                   glob_optima_strings, glob_optima_score, path, solution,
                   fitness, number_evaluations, shuffled, is_optimum,
                   ioVars, elimination_result, comparison,
                   stored_best_scores, children_read,
                   configuration_iterator, yielded, sampled>>

\* generate_write_return: a codomain generated for the parameters is written
\* to the codomain file
WriteCodomain ==
    /\ pc = "start"
    /\ input_parameters.m * Pow(2, input_parameters.k) <= MaxCells
    /\ \E cv \in EvaluatedTables(input_parameters) :
         /\ codomain_values' = cv
         /\ file' = write_codomain(input_parameters, cv)
    /\ pc' = "written"
    /\ UNCHANGED <<input_parameters, rng, indices, cliques, separators,
                   glob_optima_strings, glob_optima_score, path, solution,
                   fitness, number_evaluations, shuffled, is_optimum,
                   content_iterator, from_line_result, read_result,
                   elimination_result, comparison, stored_best_scores,
                   children_read, configuration_iterator, yielded, sampled>>

\* the file loses its last lines before it is read (a file cut short)
TruncateFile ==
    /\ pc = "written"
    /\ read_result = <<>>
    /\ Len(file) = 2 + input_parameters.m * Pow(2, input_parameters.k)
    /\ \E kept \in 0..(Len(file) - 1) : file' = SubSeq(file, 1, kept)
    /\ UNCHANGED <<pc, input_parameters, rng, indices, cliques, separators,
                   codomain_values, glob_optima_strings, glob_optima_score,
                   path, solution, fitness, number_evaluations, shuffled,
                   is_optimum, content_iterator, from_line_result,
                   read_result, elimination_result, comparison,
                   stored_best_scores, children_read,
                   configuration_iterator, yielded, sampled>>

\* read_codomain with the same parameters and the two header lines skipped
ReadCodomain ==
    /\ pc = "written"
    /\ read_result = <<>>
    /\ read_result' = <<read_codomain(input_parameters, file, 2)>>
    /\ UNCHANGED <<pc, input_parameters, rng, indices, cliques, separators,
                   codomain_values, glob_optima_strings, glob_optima_score,
                   path, solution, fitness, number_evaluations, shuffled,
                   is_optimum, content_iterator, from_line_result, file,
                   elimination_result, comparison, stored_best_scores,
                   children_read, configuration_iterator, yielded, sampled>>

NextCodomainFile == WriteCodomain \/ TruncateFile \/ ReadCodomain

SpecCodomainFile == Init /\ [][NextCodomainFile]_vars

\* A separable instance solved by both paths.
NextSeparability == Construct \/ CalculateGlobalOptima \/ EliminateSeparable

SpecSeparability == Init /\ [][NextSeparability]_vars

\* Instances produced from a tree the caller supplies.
NextSupplied ==
    Construct \/ NewForEvaluation \/ SolveSupplied
        \/ ConstructFromProblemCodomain

SpecSupplied == Init /\ [][NextSupplied]_vars

\* Construction and solving of an instance.
Next == Construct \/ CalculateGlobalOptima

Spec == Init /\ [][Next]_vars

\* An instance of few variables solved with the descending table, and every
\* call a caller can make on it.
NewDescending ==
    /\ pc = "built"
    /\ ProblemSize(input_parameters) <= MaxEvalVariables
    /\ Solve(DescendingTable(input_parameters))

NextCalls ==
    Construct \/ NewDescending \/ CalculateFitness \/ CalculateFitnessDelta
        \/ IsGlobalOptimum

SpecCalls == Init /\ [][NextCalls]_vars

\* CliqueTree::new alone.
NextNew == Construct \/ NewForEvaluation

SpecNew == Init /\ [][NextNew]_vars

\* Construction of the clique tree alone.
NextConstruct == Construct

SpecConstruct == Init /\ [][NextConstruct]_vars

\* Construction of an instance and its evaluation by a caller.
NextEval ==
    Construct \/ NewForEvaluation \/ CalculateFitness \/ CalculateFitnessDelta

SpecEval == Init /\ [][NextEval]_vars

\* The reference fixture next to the instances of the model's parameters.
InitFixture == InitWith(InputParameters \cup {FixtureParameters})

NextFixture == Construct \/ ConstructFixture \/ SolveFixture

SpecFixture == InitFixture /\ [][NextFixture]_vars

\* CliqueTree::new on parameters that nothing has validated.
InitUnchecked == InitWith(UncheckedParameters)

NextUnchecked == Construct \/ NewForEvaluation

SpecUnchecked == InitUnchecked /\ [][NextUnchecked]_vars

\* Construction of an instance and the optimum queries of a caller.
NextQuery ==
    Construct \/ NewForEvaluation \/ CalculateFitness \/ IsGlobalOptimum

SpecQuery == Init /\ [][NextQuery]_vars

(***************************************************************************)
(* Definitions used to state the properties.                               *)
(***************************************************************************)
Built == pc # "start"

Solved == pc = "solved"

P == input_parameters

N == ProblemSize(input_parameters)

Fitness(x) == calculate_fitness(cliques, codomain_values, x)

SetMax(S) == CHOOSE a \in S : \A c \in S : c <= a

MaxFitness == SetMax({Fitness(x) : x \in Solutions(P)})

OptimaSet == Range(glob_optima_strings)

RECURSIVE SumOver(_, _)
SumOver(f, S) ==
    IF S = {} THEN 0
    ELSE LET a == CHOOSE a \in S : TRUE IN f[a] + SumOver(f, S \ {a})

RECURSIVE ProductOver(_, _)
ProductOver(f, S) ==
    IF S = {} THEN 1
    ELSE LET a == CHOOSE a \in S : TRUE IN f[a] * ProductOver(f, S \ {a})

\* The parent of clique i > 0 in the b-ary tree laid out in level order.
Parent(i, b) == (i - 1) \div b

\* b, or 1 when o = 0
TreeB == IF P.o = 0 THEN 1 ELSE P.b

(***************************************************************************)
(* C1.  Optimality: the reported glob_optima_score is attained by at least *)
(* one assignment and no assignment of the n variables evaluates           *)
(* (calculate_fitness) to a higher value than glob_optima_score.           *)
(***************************************************************************)
C1_Optimality ==
    Solved =>
        /\ \E x \in Solutions(P) : Fitness(x) = glob_optima_score
        /\ \A x \in Solutions(P) : Fitness(x) <= glob_optima_score

(***************************************************************************)
(* C2.  Completeness of the optimum set: every assignment whose fitness    *)
(* equals the maximum fitness over all 2^n assignments is contained in     *)
(* glob_optima_strings.                                                    *)
(***************************************************************************)
AllWithFitnessListed(mx, listed) ==
    \A x \in Solutions(P) : Fitness(x) = mx => x \in listed

C2_Completeness ==
    Solved => AllWithFitnessListed(MaxFitness, OptimaSet)

(***************************************************************************)
(* C3.  Soundness of the optimum set: every string in glob_optima_strings  *)
(* evaluates with calculate_fitness to a value that differs from the       *)
(* reported glob_optima_score by less than epsilon.                        *)
(***************************************************************************)
C3_Soundness ==
    Solved =>
        \A x \in OptimaSet : Abs(Fitness(x) - glob_optima_score) < FITNESS_EPSILON

(***************************************************************************)
(* C4.  Incremental consistency: calculate_fitness_delta((x, f), v) called *)
(* on the not-yet-flipped x with f = calculate_fitness(x) equals           *)
(* calculate_fitness(x with bit v flipped); hence after any sequence of    *)
(* single-bit flips in which the caller flips the bit and carries the      *)
(* returned fitness, the carried fitness equals the from-scratch fitness   *)
(* of the current assignment.                                              *)
(***************************************************************************)
C4_IncrementalConsistency ==
    solution # <<>> => fitness = Fitness(solution)

\* a SolutionFit carried over two flips, with a non-zero fitness
C4_Witness ==
    /\ number_evaluations = 3
    /\ fitness # 0
    /\ P.o > 0 /\ P.m > 1

(***************************************************************************)
(* C5.  calculate_fitness(x) equals the sum over all M cliques c of        *)
(* codomain_values[c][idx_c(x)], where idx_c(x) is the sum over positions  *)
(* j of x[cliques[c][j]] * 2^(k-1-j): the clique's first variable is the   *)
(* most significant bit of the table index.                                *)
(***************************************************************************)
\* the number whose k-bit binary notation, read from the most significant
\* bit, is x at the clique's variables in their declared order
PackedIndex(c, x) ==
    CHOOSE idx \in 0..(Pow(2, P.k) - 1) :
        \A j \in 0..(P.k - 1) :
            (idx \div Pow(2, P.k - 1 - j)) % 2 = x[cliques[c + 1][j + 1] + 1]

SumOfLookups(x) ==
    SumOver([c \in 0..(P.m - 1) |-> codomain_values[c + 1][PackedIndex(c, x) + 1]],
            0..(P.m - 1))

C5_FitnessIsSumOfLookups ==
    (solution # <<>> /\ number_evaluations = 1) =>
        fitness = SumOfLookups(solution)

\* an evaluated assignment that is not a palindrome on some clique, with a
\* non-zero fitness
C5_Witness ==
    /\ solution # <<>> /\ number_evaluations = 1
    /\ fitness # 0
    /\ P.k > 1
    /\ \E c \in 1..P.m : solution[cliques[c][1] + 1] # solution[cliques[c][P.k] + 1]

(***************************************************************************)
(* C6.  Separable path (o = 0): the reported score is the sum over cliques *)
(* of each clique's maximal table value, and the returned set is exactly   *)
(* the Cartesian product of the cliques' tied maximizing local             *)
(* assignments, each written at the clique's variable positions; so the    *)
(* number of returned strings is the product of the per-clique tie counts. *)
(***************************************************************************)
TableMax(c) == SetMax(Range(codomain_values[c]))

\* the local assignments of clique c whose value is within the tolerance of
\* the clique's maximal value
TiedMaximizers(c) ==
    {idx \in 0..(Pow(2, P.k) - 1) :
        Abs(codomain_values[c][idx + 1] - TableMax(c)) < FITNESS_EPSILON}

ProductOfTies ==
    {x \in Solutions(P) :
        \A c \in 1..P.m : \E idx \in TiedMaximizers(c) :
            \A j \in 1..P.k : x[cliques[c][j] + 1] = Bit(idx, P.k - j)}

C6_SeparablePath ==
    (Solved /\ P.o = 0) =>
        /\ glob_optima_score = SumOver([c \in 1..P.m |-> TableMax(c)], 1..P.m)
        /\ OptimaSet = ProductOfTies
        /\ Len(glob_optima_strings) =
              ProductOver([c \in 1..P.m |-> Cardinality(TiedMaximizers(c))],
                          1..P.m)

(***************************************************************************)
(* C7.  Builder structure: construct returns exactly M cliques and M       *)
(* separators; every clique lists k pairwise distinct variable indices in  *)
(* 0..n-1; the root clique is the first k entries of the permutation; the  *)
(* k-o private variables of each non-root clique occur in no earlier       *)
(* clique; and every variable in 0..n-1 occurs in at least one clique.     *)
(***************************************************************************)
Distinct(v) == \A a, c \in 1..Len(v) : a # c => v[a] # v[c]

C7_BuilderStructure ==
    Built =>
        /\ Len(cliques) = P.m /\ Len(separators) = P.m
        /\ \A c \in 1..P.m :
              /\ Len(cliques[c]) = P.k
              /\ Distinct(cliques[c])
              /\ Range(cliques[c]) \subseteq 0..(N - 1)
        /\ Len(indices) = N /\ Range(indices) = 0..(N - 1)
        /\ cliques[1] = SubSeq(indices, 1, P.k)
        /\ \A c \in 2..P.m : \A j \in (P.o + 1)..P.k : \A e \in 1..(c - 1) :
              cliques[c][j] \notin Range(cliques[e])
        /\ \A v \in 0..(N - 1) : \E c \in 1..P.m : v \in Range(cliques[c])

\* a tree of three cliques with overlap, built from a shuffled permutation
C7_Witness ==
    /\ pc = "built" /\ P.m >= 3 /\ P.o > 0 /\ P.b > 1
    /\ indices[1] # 0

(***************************************************************************)
(* C8.  Separator placement: separators[0] is empty and for every clique   *)
(* i > 0 separators[i] has exactly o distinct variables, each of which is  *)
(* a member of the parent clique cliques[floor((i-1)/b')] (b' = b, or 1    *)
(* when o = 0), and cliques[i][0..o) equals separators[i] in the same      *)
(* order.                                                                  *)
(***************************************************************************)
C8_SeparatorPlacement ==
    Built =>
        /\ separators[1] = <<>>
        /\ \A i \in 1..(P.m - 1) :
              /\ Len(separators[i + 1]) = P.o
              /\ Distinct(separators[i + 1])
              /\ Range(separators[i + 1])
                    \subseteq Range(cliques[Parent(i, TreeB) + 1])
              /\ SubSeq(cliques[i + 1], 1, P.o) = separators[i + 1]

\* a clique whose parent is not the root, with a separator that is not the
\* leading part of its parent
C8_Witness ==
    /\ pc = "built" /\ P.o > 0
    /\ \E i \in 1..(P.m - 1) :
          /\ Parent(i, TreeB) > 0
          /\ separators[i + 1][1] # cliques[Parent(i, TreeB) + 1][1]

(***************************************************************************)
(* C9.  Running-intersection property: in every tree produced by construct *)
(* (o > 0), for any two cliques that both contain a variable v, every      *)
(* clique on the tree path between them (parent of clique i being          *)
(* floor((i-1)/b)) also contains v.                                        *)
(***************************************************************************)
RECURSIVE Ancestors(_, _)
Ancestors(i, b) == IF i = 0 THEN {0} ELSE {i} \cup Ancestors(Parent(i, b), b)

\* the cliques on the tree path between cliques a and c, ends included
TreePath(a, c, b) ==
    LET common == Ancestors(a, b) \cap Ancestors(c, b)
        meet   == SetMax(common)
    IN  ((Ancestors(a, b) \cup Ancestors(c, b)) \ common) \cup {meet}

C9_RunningIntersection ==
    (Built /\ P.o > 0) =>
        \A a, c \in 0..(P.m - 1) : \A v \in 0..(N - 1) :
            (v \in Range(cliques[a + 1]) /\ v \in Range(cliques[c + 1])) =>
                \A e \in TreePath(a, c, P.b) : v \in Range(cliques[e + 1])

\* a variable shared by two cliques that are not neighbours in the tree
C9_Witness ==
    /\ pc = "built" /\ P.o > 0
    /\ \E a, c \in 0..(P.m - 1) : \E v \in 0..(N - 1) :
          /\ v \in Range(cliques[a + 1]) /\ v \in Range(cliques[c + 1])
          /\ Cardinality(TreePath(a, c, P.b)) >= 3

(***************************************************************************)
(* C10.  Degenerate case o = 0: whatever b is supplied, construct behaves  *)
(* as with b = 1, all separators are empty, the M cliques are pairwise     *)
(* variable-disjoint (n = M*k), and calculate_global_optima takes the      *)
(* separable path instead of the elimination path.                         *)
(***************************************************************************)
C10_DegenerateCase ==
    (Built /\ P.o = 0) =>
        /\ \E draws \in [1..P.m -> Draws] :
              LET r == ConstructResult([P EXCEPT !.b = 1], draws)
              IN  /\ r.indices = indices
                  /\ r.cliques = cliques
                  /\ r.separators = separators
                  /\ r.shuffles = rng
        /\ \A c \in 1..P.m : separators[c] = <<>>
        /\ \A a, c \in 1..P.m :
              a # c => Range(cliques[a]) \cap Range(cliques[c]) = {}
        /\ N = P.m * P.k
        /\ pc \in {"solved", "aborted"} => path = "separable"
        /\ pc # "aborted"

\* a solved separable instance of several cliques that was given b > 1
C10_Witness ==
    /\ Solved /\ P.o = 0 /\ P.b > 1 /\ P.m > 1
    /\ path = "separable"

(***************************************************************************)
(* C11.  is_global_optimum(solution, fitness) returns true exactly when    *)
(* fitness equals the cached glob_optima_score exactly, or the two differ  *)
(* by less than epsilon and the solution is a member of the cached         *)
(* glob_optima_strings; in particular a solution that is not in the cached *)
(* set and whose fitness is within epsilon of, but not equal to, the       *)
(* cached score is rejected.                                               *)
(***************************************************************************)
WithinEpsilon(a, c) == a - c < FITNESS_EPSILON /\ c - a < FITNESS_EPSILON

NearMiss ==
    /\ solution \notin OptimaSet
    /\ fitness # glob_optima_score
    /\ WithinEpsilon(fitness, glob_optima_score)

C11_IsGlobalOptimum ==
    is_optimum # <<>> =>
        /\ is_optimum[1] <=>
              \/ fitness = glob_optima_score
              \/ (WithinEpsilon(fitness, glob_optima_score)
                    /\ solution \in OptimaSet)
        /\ NearMiss => ~is_optimum[1]

\* a query that rejected a solution outside the cached set whose fitness is
\* closer than the tolerance to the cached score
C11_Witness ==
    /\ is_optimum = <<FALSE>>
    /\ NearMiss

(***************************************************************************)
(* C12.  Reference fixture: for M=5, k=3, o=1, b=2 with the cliques        *)
(* [9,8,10], [9,5,4], [9,7,0], [4,6,1], [9,3,2] (separators = the first    *)
(* variable of each non-root clique) and the deceptive-trap tables of the  *)
(* test's expected codomain file, calculate_global_optima returns the      *)
(* score 4.8 and exactly one optimal string, 00010111100 (one character    *)
(* per variable in ascending variable index).                              *)
(***************************************************************************)
FixtureSolved ==
    /\ pc \in {"solved", "aborted"}
    /\ P = FixtureParameters
    /\ cliques = FixtureCliques
    /\ separators = FixtureSeparators
    /\ codomain_values = FixtureCodomain

C12_ReferenceFixture ==
    FixtureSolved =>
        /\ pc = "solved"
        /\ glob_optima_score = Tenths(48)
        /\ glob_optima_strings = <<<<0, 0, 0, 1, 0, 1, 1, 1, 1, 0, 0>>>>

\* the fixture, solved
C12_Witness ==
    /\ FixtureSolved
    /\ pc = "solved"
    /\ path = "elimination"

(***************************************************************************)
(* C13.  Parameter validation: building an instance (CliqueTree::new /     *)
(* construct) with o >= k or k >= 32 is reported to the caller as a        *)
(* structured error before any construction or solving step is performed;  *)
(* the parameters are never silently clamped or wrapped and no clique,     *)
(* separator or optimum is produced.                                       *)
(***************************************************************************)
C13_ParameterValidation ==
    (P.o >= P.k \/ P.k >= 32) =>
        /\ pc = "start"
        /\ cliques = <<>> /\ separators = <<>>
        /\ glob_optima_strings = <<>>

(***************************************************************************)
(* C14.  InputParameters::from_line_iterator returns an error and no       *)
(* parameters when the iterator has no next line, when the line does not   *)
(* split on single spaces into exactly 4 tokens, or when any token is not  *)
(* an unsigned 32-bit integer; otherwise it returns (m, k, o, b) taken     *)
(* from the tokens in that order and consumes exactly one line.            *)
(***************************************************************************)
SpacesOf(line) == {i \in 1..Len(line) : line[i] = " "}

\* the t-th of the pieces that the spaces cut a line into: the characters
\* after the (t-1)-th space and before the t-th
PieceOf(line, t) ==
    LET before == {i \in SpacesOf(line) :
                     Cardinality({h \in SpacesOf(line) : h < i}) = t - 2}
        after  == {i \in SpacesOf(line) :
                     Cardinality({h \in SpacesOf(line) : h < i}) = t - 1}
        first  == IF before = {} THEN 1 ELSE (CHOOSE i \in before : TRUE) + 1
        last   == IF after = {} THEN Len(line)
                  ELSE (CHOOSE i \in after : TRUE) - 1
    IN  SubSeq(line, first, last)

IsUnsignedNumeral(token) ==
    token # <<>> /\ \A i \in 1..Len(token) : token[i] \in Range(DecimalDigits)

\* the number a decimal numeral denotes
NumeralValue(token) ==
    SumOver([i \in 1..Len(token) |->
                DigitValue(token[i]) * Pow(10, Len(token) - i)],
            1..Len(token))

WellFormedLine(line) ==
    /\ Cardinality(SpacesOf(line)) = 3
    /\ \A t \in 1..4 : IsUnsignedNumeral(PieceOf(line, t))

C14_FromLineIterator ==
    [][pc = "reading" =>
        IF content_iterator # <<>> /\ WellFormedLine(Head(content_iterator))
        THEN /\ from_line_result' = <<"Ok">>
             /\ input_parameters' =
                   [m |-> NumeralValue(PieceOf(Head(content_iterator), 1)),
                    k |-> NumeralValue(PieceOf(Head(content_iterator), 2)),
                    o |-> NumeralValue(PieceOf(Head(content_iterator), 3)),
                    b |-> NumeralValue(PieceOf(Head(content_iterator), 4))]
             /\ content_iterator' = Tail(content_iterator)
        ELSE /\ from_line_result' = <<"Err">>
             /\ input_parameters' = NoParameters]_vars

\* parameters whose neighbouring fields differ, read from a line that a
\* further line follows
C14_Witness ==
    /\ from_line_result = <<"Ok">>
    /\ content_iterator # <<>>
    /\ input_parameters.m # input_parameters.k
    /\ input_parameters.k # input_parameters.o
    /\ input_parameters.o # input_parameters.b

(***************************************************************************)
(* C15.  Codomain file round-trip: for every table of M rows of 2^k        *)
(* values, write_codomain followed by read_codomain with the same (M, k)   *)
(* and 2 skipped header lines returns the identical table; values are laid *)
(* out clique-major then index-major (value j of clique c is line          *)
(* 2 + c*2^k + j, zero-based), and a file with fewer than M*2^k value      *)
(* lines yields an error instead of a partial table.                       *)
(***************************************************************************)
\* the number that a line of digits with an optional minus sign denotes
SignedNumeralValue(line) ==
    IF line[1] = "-" THEN 0 - NumeralValue(Tail(line)) ELSE NumeralValue(line)

ValueLines == P.m * Pow(2, P.k)

C15_CodomainRoundTrip ==
    pc = "written" =>
        /\ \A c \in 0..(P.m - 1) : \A j \in 0..(Pow(2, P.k) - 1) :
              2 + c * Pow(2, P.k) + j < Len(file) =>
                  SignedNumeralValue(file[2 + c * Pow(2, P.k) + j + 1])
                      = codomain_values[c + 1][j + 1]
        /\ (read_result # <<>> /\ Len(file) >= 2 + ValueLines) =>
              /\ read_result[1].ok
              /\ read_result[1].codomain = codomain_values
        /\ (read_result # <<>> /\ Len(file) < 2 + ValueLines) =>
              /\ ~read_result[1].ok
              /\ read_result[1].codomain = <<>>

\* a table of several cliques with a negative value in a later clique, read
\* back from its file
C15_Witness ==
    /\ pc = "written" /\ read_result # <<>> /\ read_result[1].ok
    /\ P.m > 1 /\ P.k > 1
    /\ \E j \in 1..Pow(2, P.k) : read_result[1].codomain[2][j] < 0

(***************************************************************************)
(* C16.  Corrupted-tree detection: if the separator of any non-root clique *)
(* contains a variable that is not in its parent clique, producing an      *)
(* instance aborts and never yields a landscape with an optimum score and  *)
(* optimum strings, for every way an instance is produced, including       *)
(* solving supplied cliques and separators and                             *)
(* CliqueTree::construct_from_problem_codomain.                            *)
(***************************************************************************)
CorruptedTree ==
    \E c \in 2..Len(cliques) : \E x \in 1..Len(separators[c]) :
        ~Contains(cliques[Parent(c - 1, TreeB) + 1], separators[c][x])

C16_CorruptedTreeDetection ==
    CorruptedTree => pc \notin {"solved", "loaded"}

RecordedTies(c) == {CliqueIndex(cliques[c], s) : s \in OptimaSet}

C18_SeparableTieCollection ==
    (Solved /\ P.o = 0) =>
        \A c \in 1..P.m : RecordedTies(c) = TiedMaximizers(c)

(***************************************************************************)
(* C19.  Single clique: for M = 1 with 0 < o < k and any b >= 1,           *)
(* calculate_global_optima performs no elimination step and no top-down    *)
(* extension, and returns as score the maximum of table 0 and as strings   *)
(* exactly the k-bit assignments of the root clique that attain it,        *)
(* written at the root clique's variable positions.                        *)
(***************************************************************************)
\* the strings that give the root clique an assignment attaining the maximum
RootMaximizers ==
    {x \in Solutions(P) :
        codomain_values[1][CliqueIndex(cliques[1], x) + 1] = TableMax(1)}

C19_SingleClique ==
    (Solved /\ P.m = 1 /\ P.o > 0) =>
        /\ path = "elimination"
        /\ glob_optima_score = TableMax(1)
        /\ OptimaSet = RootMaximizers

(***************************************************************************)
(* C20.  Random-stream discipline of construct: the bit source is used in  *)
(* a fixed order and count: first one shuffle of the full list of n        *)
(* variable indices, then exactly one shuffle of the parent's clique for   *)
(* each non-root clique in creation order (M - 1 shuffles, also when       *)
(* o = 0) and no other draw.                                               *)
(***************************************************************************)
C20_RandomStreamDiscipline ==
    Built =>
        /\ rng = P.m
        /\ Len(shuffled) = P.m
        /\ shuffled[1] = [x \in 1..N |-> x - 1]
        /\ \A c \in 2..P.m :
              shuffled[c] = cliques[Parent(c - 1, TreeB) + 1]

\* a separable instance of three cliques: the third shuffle was handed the
\* second clique, the parent in the chain
C20_Witness ==
    /\ Built /\ P.m = 3 /\ P.o = 0
    /\ rng = 3
    /\ shuffled[3] = cliques[2] /\ cliques[2] # cliques[1]

(***************************************************************************)
(* C21.  Tolerance comparators: for all fitness values a, b,               *)
(* is_better_fitness(a, b) holds iff a - b >= epsilon, is_equal_fitness    *)
(* iff |a - b| < epsilon, is_worse_fitness iff b - a >= epsilon; exactly   *)
(* one of the three holds for every pair, and is_better_or_equal_fitness   *)
(* holds iff is_better_fitness or is_equal_fitness holds.                  *)
(***************************************************************************)
Compared == pc = "compared"

BoolCount(b) == IF b THEN 1 ELSE 0

C21_ToleranceComparators ==
    Compared =>
        LET r == comparison[1]
            a == r.fitness1
            c == r.fitness2
        IN  /\ r.better <=> (a - c >= FITNESS_EPSILON)
            /\ r.equal <=> (a - c < FITNESS_EPSILON /\ c - a < FITNESS_EPSILON)
            /\ r.worse <=> (c - a >= FITNESS_EPSILON)
            /\ BoolCount(r.better) + BoolCount(r.equal) + BoolCount(r.worse) = 1
            /\ r.better_or_equal <=> (r.better \/ r.equal)

\* a pair exactly epsilon apart, which is better and not equal
C21_Witness ==
    /\ Compared
    /\ comparison[1].fitness1 - comparison[1].fitness2 = FITNESS_EPSILON
    /\ comparison[1].better /\ comparison[1].better_or_equal

(***************************************************************************)
(* C22.  Elimination message: for every non-root clique i and every        *)
(* separator value s, the score the parent later reads for (i, s) (the     *)
(* first recorded tuple of best_scores[i][s]) equals the maximum over all  *)
(* free values f of table[i][s*2^(k-o)+f] plus the sum, over i's existing  *)
(* children, of the child's stored score at the separator value induced by *)
(* (s, f); and the recorded tuples for (i, s) are exactly the free values  *)
(* f whose score is within epsilon of that maximum.                        *)
(***************************************************************************)
FreeValues == 0..(Pow(2, P.k - P.o) - 1)

SeparatorValues == 0..(Pow(2, P.o) - 1)

ChildrenOf(i) == {c \in 1..(P.m - 1) : Parent(c, TreeB) = i}

\* the score a parent reads for child c and separator value s
ReadScore(c, s) == stored_best_scores[c + 1][s + 1][1].score

\* the bit of variable v of clique i when the clique's k variables, in their
\* declared order, spell the number idx from the most significant bit
BitOfVariable(i, idx, v) ==
    LET pos == CHOOSE x \in 1..P.k : cliques[i + 1][x] = v
    IN  (idx \div Pow(2, P.k - pos)) % 2

\* the value of child c's separator that the assignment idx of clique i induces
InducedSeparatorValue(i, c, idx) ==
    SumOver([x \in 1..P.o |->
               BitOfVariable(i, idx, separators[c + 1][x]) * Pow(2, P.o - x)],
            1..P.o)

MessageScore(i, s, f) ==
    LET idx == s * Pow(2, P.k - P.o) + f
    IN  codomain_values[i + 1][idx + 1]
        + SumOver([c \in ChildrenOf(i) |->
                     ReadScore(c, InducedSeparatorValue(i, c, idx))],
                  ChildrenOf(i))

MessageMax(i, s) == SetMax({MessageScore(i, s, f) : f \in FreeValues})

\* the free values recorded for (i, s), as numbers
RecordedFreeValues(i, s) ==
    {transform_substring_vector_to_index(stored_best_scores[i + 1][s + 1][t].sub) :
        t \in 1..Len(stored_best_scores[i + 1][s + 1])}

C22_EliminationMessage ==
    (Solved /\ P.o > 0) =>
        \A i \in 1..(P.m - 1) : \A s \in SeparatorValues :
            /\ ReadScore(i, s) = MessageMax(i, s)
            /\ RecordedFreeValues(i, s) =
                  {f \in FreeValues :
                      Abs(MessageScore(i, s, f) - MessageMax(i, s))
                          < FITNESS_EPSILON}

(***************************************************************************)
(* C23.  Builder/solver topology agreement: for every valid (M, b) with    *)
(* o > 0, the children that calculate_global_optima derives for node i     *)
(* from the level start offsets, in the bottom-up pass, at the root and in *)
(* the top-down pass, are exactly the indices b*i+1 .. min(b*i+b, M-1),    *)
(* which are exactly the cliques construct created with node i as parent;  *)
(* every non-root clique is therefore processed as the child of exactly    *)
(* one node, and no index >= M is ever accessed.                           *)
(***************************************************************************)
\* b*i+1 .. min(b*i+b, M-1)
IndexChildren(i) ==
    {c \in 1..(P.m - 1) : P.b * i + 1 <= c /\ c <= P.b * i + P.b}

\* the cliques construct created by shuffling the clique of node i
BuiltChildren(i) ==
    {c \in 1..(P.m - 1) : shuffled[c + 1] = cliques[i + 1]}

\* the children the bottom-up pass read for node i
BottomUpChildren(i) ==
    UNION {Range(children_read.bottom_up[t][2]) :
              t \in {u \in 1..Len(children_read.bottom_up) :
                         children_read.bottom_up[u][1] = i}}

\* the children the top-down pass extended the strings with for node i
TopDownChildren(i) ==
    {children_read.top_down[t][2] :
        t \in {u \in 1..Len(children_read.top_down) :
                   children_read.top_down[u][1] = i}}

C23_TopologyAgreement ==
    (Solved /\ P.o > 0) =>
        /\ Range(children_read.root) = IndexChildren(0)
        /\ \A i \in 1..(P.m - 1) : BottomUpChildren(i) = IndexChildren(i)
        /\ \A i \in 0..(P.m - 1) :
              /\ TopDownChildren(i) = IndexChildren(i)
              /\ IndexChildren(i) = BuiltChildren(i)
        /\ Len(children_read.top_down) = P.m - 1
        /\ Len(children_read.bottom_up) = P.m - 1
        /\ \A t \in 1..Len(children_read.top_down) :
              children_read.top_down[t][1] \in 0..(P.m - 1)
        /\ \A t \in 1..Len(children_read.bottom_up) :
              children_read.bottom_up[t][1] \in 1..(P.m - 1)

\* a tree of three levels in which node 1 has two children and node 2 none
C23_Witness ==
    /\ Solved /\ P.o > 0 /\ P.b = 2 /\ P.m = 5
    /\ IndexChildren(1) = {3, 4} /\ TopDownChildren(1) = {3, 4}
    /\ BottomUpChildren(1) = {3, 4} /\ BottomUpChildren(2) = {}

(***************************************************************************)
(* C24.  Shape of the optimum set: for every valid instance the returned   *)
(* optimal strings are pairwise distinct, each has length exactly          *)
(* n = (M-1)(k-o)+k, and each entry is 0 or 1.                             *)
(***************************************************************************)
C24_OptimumSetShape ==
    Solved =>
        /\ \A s, t \in 1..Len(glob_optima_strings) :
              s # t => glob_optima_strings[s] # glob_optima_strings[t]
        /\ \A s \in 1..Len(glob_optima_strings) :
              /\ Len(glob_optima_strings[s]) = (P.m - 1) * (P.k - P.o) + P.k
              /\ \A x \in 1..Len(glob_optima_strings[s]) :
                    glob_optima_strings[s][x] \in {0, 1}

\* several optimal strings of an instance with overlapping cliques
C24_Witness ==
    /\ Solved /\ P.m > 1 /\ Len(glob_optima_strings) > 2
    /\ path = "elimination"
    /\ glob_optima_strings[1] # glob_optima_strings[2]

(***************************************************************************)
(* C25.  Cached optimum query: after CliqueTree::new on a valid instance,  *)
(* for every 0/1 assignment x of length n, is_global_optimum applied to x  *)
(* with fitness calculate_fitness(x) is true if and only if x attains the  *)
(* maximum fitness over all assignments.                                   *)
(***************************************************************************)
C25_CachedOptimumQuery ==
    (is_optimum # <<>> /\ fitness = Fitness(solution)) =>
        (is_optimum[1] <=> Fitness(solution) = MaxFitness)

(***************************************************************************)
(* C26.  Non-empty tie lists: for every valid instance, every lookup       *)
(* best_scores[child][separator value] made by a parent in the bottom-up   *)
(* pass or during top-down reconstruction finds at least one recorded      *)
(* maximizing instance, and the solver returns at least one optimum so     *)
(* that CliqueTree::new can read element 0 of the result.                  *)
(***************************************************************************)
C26_NonEmptyTieLists ==
    pc \in {"solved", "aborted"} =>
        /\ pc = "solved"
        /\ Len(glob_optima_strings) >= 1
        /\ P.o > 0 =>
              \A i \in 1..(P.m - 1) : \A s \in SeparatorValues :
                  Len(stored_best_scores[i + 1][s + 1]) >= 1

\* a solved tree in which a parent below the root read its child's list and
\* the top-down pass read it again
C26_Witness ==
    /\ Solved /\ P.o > 0 /\ P.m >= 3
    /\ \E t \in 1..Len(children_read.bottom_up) :
          children_read.bottom_up[t][2] # <<>>
    /\ Len(children_read.top_down) >= 2

(***************************************************************************)
(* C27.  Read-only evaluation: calculate_fitness, calculate_fitness_delta  *)
(* and is_global_optimum leave the instance's parameters, cliques,         *)
(* codomain tables, cached optimum score and cached optimum strings        *)
(* unchanged and do not modify the solution passed in; the only state they *)
(* change is the evaluation counter, which calculate_fitness and           *)
(* calculate_fitness_delta each increase by exactly 1 per call.            *)
(***************************************************************************)
\* the positions at which two solutions differ
Differences(x, y) == {q \in 1..Len(x) : x[q] # y[q]}

Iterating == pc = "iterating"

Ranges == configuration_iterator[1]

\* the t-th tuple (t = 1, 2, ...) of the ranges in lexicographic order
TupleAt(t) ==
    LET eb == Ranges.b_end - Ranges.b_begin
        eo == Ranges.o_end - Ranges.o_begin
        ek == Ranges.k_end - Ranges.k_begin
    IN  [m |-> Ranges.m_begin + ((t - 1) \div (eb * eo * ek)),
         k |-> Ranges.k_begin + (((t - 1) \div (eb * eo)) % ek),
         o |-> Ranges.o_begin + (((t - 1) \div eb) % eo),
         b |-> Ranges.b_begin + ((t - 1) % eb)]

C28_ConfigurationIteration ==
    (Iterating /\ Ranges.m_begin >= 1) =>
        \A t \in 1..Len(yielded) :
            IF t <= NumberOfTuples(Ranges)
            THEN yielded[t] = <<TupleAt(t)>>
            ELSE yielded[t] = <<>>

\* every tuple of a configuration with two values in each dimension has been
\* yielded and the next call returned None
C28_Witness ==
    /\ Iterating /\ Ranges.m_begin >= 1
    /\ NumberOfTuples(Ranges) = 16
    /\ Len(yielded) = 17
    /\ yielded[16] = <<[m |-> Ranges.m_end - 1, k |-> Ranges.k_end - 1,
                        o |-> Ranges.o_end - 1, b |-> Ranges.b_end - 1]>>
    /\ yielded[17] = <<>>

(***************************************************************************)
(* C29.  Configuration iteration terminates: for any ranges with           *)
(* begin < end in every dimension, repeated next() calls on                *)
(* ConfigurationParametersIterator return None after finitely many calls,  *)
(* and every call after the first None also returns None.                  *)
(***************************************************************************)
C29_IterationTerminates ==
    Iterating =>
        /\ Len(yielded) > NumberOfTuples(Ranges) =>
              \E t \in 1..Len(yielded) : yielded[t] = <<>>
        /\ \A t \in 1..Len(yielded) : \A u \in t..Len(yielded) :
              yielded[t] = <<>> => yielded[u] = <<>>

(***************************************************************************)
(* C30.  Deceptive-trap tables: in every clique table produced by          *)
(* generate_trap_general, the entry at the bitwise complement of that      *)
(* clique's randomly drawn deceptor is 1.0 and every entry at Hamming      *)
(* distance d < k from the deceptor is 0.9 - d*0.9/k (the deceptor itself  *)
(* 0.9); hence each clique table has exactly one maximal entry, and        *)
(* exactly one k-bit deceptor is drawn per clique, in clique order.        *)
(***************************************************************************)
Generated == pc = "generated"

\* the i-th group of k samples
DrawnDeceptor(i) ==
    SubSeq(sampled, (i - 1) * input_parameters.k + 1, i * input_parameters.k)

Complement(string) == [pos \in 1..Len(string) |-> 1 - string[pos]]

\* the positions at which two strings differ
DifferingPositions(s1, s2) == {pos \in 1..Len(s1) : s1[pos] # s2[pos]}

EntryAt(i, string) ==
    codomain_values[i][transform_substring_vector_to_index(string) + 1]

MaximalEntries(i) ==
    {j \in 1..Len(codomain_values[i]) :
        \A h \in 1..Len(codomain_values[i]) :
            codomain_values[i][h] <= codomain_values[i][j]}

C30_DeceptiveTrapTables ==
    Generated =>
        LET k == input_parameters.k
        IN  /\ Len(sampled) = input_parameters.m * k
            /\ rng = input_parameters.m * k
            /\ Len(codomain_values) = input_parameters.m
            /\ \A i \in 1..input_parameters.m :
                  /\ Len(codomain_values[i]) = Pow(2, k)
                  /\ EntryAt(i, Complement(DrawnDeceptor(i))) = Tenths(10)
                  /\ EntryAt(i, DrawnDeceptor(i)) = Tenths(9)
                  /\ \A string \in [1..k -> 0..1] :
                        LET d == Cardinality(
                                     DifferingPositions(string,
                                                        DrawnDeceptor(i)))
                        IN  d < k =>
                              k * EntryAt(i, string)
                                  = k * Tenths(9) - d * Tenths(9)
                  /\ Cardinality(MaximalEntries(i)) = 1

\* two cliques of three variables whose deceptors 011 and 100 differ: the
\* first table has its 1.0 at 100 and the second at 011
C30_Witness ==
    /\ Generated
    /\ input_parameters.m = 2 /\ input_parameters.k = 3
    /\ sampled = <<0, 1, 1, 1, 0, 0>>
    /\ codomain_values[1][5] = Tenths(10) /\ codomain_values[1][4] = Tenths(9)
    /\ codomain_values[2][4] = Tenths(10) /\ codomain_values[2][5] = Tenths(9)
    /\ codomain_values[1][1] = Tenths(3)

====
